---- MODULE Spec2Model ----
(***************************************************************************)
(* Order and payment processing of the course-marketplace backend:         *)
(* src/src/services/payment/payment.service.ts (order lifecycle, cart      *)
(* checkout), src/src/controller/payment.controller.ts (cancelOrder) and   *)
(* src/src/services/payment/providers/razorpay.provider.ts (adapters and   *)
(* the provider factory).                                                  *)
(*                                                                         *)
(* Every request handler is a process slot.  A handler is cut into steps   *)
(* at its awaits on the database: each step is one database statement (or  *)
(* one prisma.$transaction, which commits or rolls back as a whole), with  *)
(* the local computation that follows it.  Steps of different handlers     *)
(* interleave freely, as requests do on the server.                        *)
(***************************************************************************)
EXTENDS Integers, Sequences, FiniteSets, Bags, TLC

VARIABLES
    orders,         \* Order table: sequence of rows, the row's id is its index
    enrollments,    \* Enrollment table: bag of <<userId, courseId>>
    payments,       \* Payment table: bag of rows
    carts,          \* Cart items: userId -> sequence of course ids
    activeGateway,  \* AppSettings row ACTIVE_PAYMENT_GATEWAY ("" when absent)
    charges,        \* the gateway's own orders: the charge's id is its index
    now,            \* Date.now(), in milliseconds
    procs,          \* the request handlers in flight: slot -> local state
    reply,          \* the answer of the handler that finished last
    sigFailed,      \* history: the orders verifyPaymentSignature marked FAILED
                    \* for an invalid signature
    sessions,       \* Session table: sequence of rows, the row's id is its index
    cache,          \* Redis: the session ids with a key session:<id>
    coupons,        \* Coupon table: normalised code -> row
    couponUsages,   \* CouponUsage table: sequence of rows
    couponSystemEnabled,    \* COUPON_SYSTEM_ENABLED, read once at start-up
    validFor        \* history: the users validateCoupon answered valid

couponVars == <<coupons, couponUsages, couponSystemEnabled, validFor>>

sessionVars == <<sessions, cache>>

vars == <<orders, enrollments, payments, carts, activeGateway, charges, now, procs,
          reply, sigFailed, couponVars, sessionVars>>

-----------------------------------------------------------------------------
(* Bounds of the model *)

NumProcs == 2       \* request handlers that can be in flight together
MaxOrders == 2      \* rows the Order table can hold
MaxTicks == 3       \* clock steps
TickMs == 30000     \* milliseconds per clock step
MaxSessions == 3    \* rows the Session table can hold

(* Program constants *)

TIMEOUT_MINUTES == 1

Procs == 1..NumProcs
Users == {1, 2}

-----------------------------------------------------------------------------
(* The Course table (read-only here): 1 and 2 are published paid courses,  *)
(* 3 is a draft, 4 is free; id 5 has no row.                               *)

CourseIds == {1, 2, 3, 4}
RequestableCourses == CourseIds \cup {5}

CoursePrice(c) == CASE c = 1 -> 100 [] c = 2 -> 200 [] c = 3 -> 300 [] OTHER -> 0

CourseStatus(c) == IF c = 3 THEN "DRAFT" ELSE "PUBLISHED"

InitialCart(u) == IF u = 1 THEN <<1, 2>> ELSE <<>>

Range(s) == {s[i] : i \in DOMAIN s}

RECURSIVE SumPrices(_)
SumPrices(cs) == IF cs = <<>> THEN 0 ELSE CoursePrice(Head(cs)) + SumPrices(Tail(cs))

-----------------------------------------------------------------------------
(* Provider adapters and the provider factory *)

KnownProviders == {"RAZORPAY", "PHONEPE", "CASHFREE"}

\* getActiveProviderFromDB: the setting's value, RAZORPAY when absent or empty
GetActiveProviderFromDB(setting) == IF setting # "" THEN setting ELSE "RAZORPAY"

\* a selector that hands the stored value on without a default
SelectorWithoutDefault(setting) == setting

\* getPaymentProvider: the adapter for the active setting (named by getProviderName)
GetPaymentProvider(setting) ==
    LET a == GetActiveProviderFromDB(setting)
    IN  CASE a = "RAZORPAY" -> "RAZORPAY"
          [] a = "PHONEPE"  -> "PHONEPE"
          [] a = "CASHFREE" -> "CASHFREE"
          [] OTHER          -> "RAZORPAY"

\* the provider factory answering with the active gateway, whatever the name
ProviderByActiveSetting(providerName) == GetPaymentProvider(activeGateway)

\* getPaymentProviderByName: the adapter an order was created with
GetPaymentProviderByName(providerName) ==
    CASE providerName = "RAZORPAY" -> "RAZORPAY"
      [] providerName = "PHONEPE"  -> "PHONEPE"
      [] providerName = "CASHFREE" -> "CASHFREE"
      [] OTHER                     -> "RAZORPAY"

\* the Cashfree adapter taken to work like the reference adapter
ImplementedWithCashfree(adapter) == adapter \in {"RAZORPAY", "CASHFREE"}

\* PhonePeProvider and CashfreeProvider throw NotImplementedError on every call
AdapterImplemented(adapter) == adapter = "RAZORPAY"

\* HMAC-SHA256 of gatewayOrderId + "|" + gatewayPaymentId under the provider
\* secret, as a hex digest: an injective function of the two ids
Hmac(gatewayOrderId, gatewayPaymentId) == <<gatewayOrderId, gatewayPaymentId>>

NoSig == <<0, 0>>        \* the field is absent from the payload
ForgedSig == <<-1, -1>>  \* a signature made without the provider secret

\* a comparison that covers the order id of the signature alone
VerifyOrderIdOnly(gatewayOrderId, gatewayPaymentId, gatewaySignature) ==
    gatewaySignature[1] = gatewayOrderId

\* RazorpayProvider.verifyPayment
RazorpayVerify(gatewayOrderId, gatewayPaymentId, gatewaySignature) ==
    Hmac(gatewayOrderId, gatewayPaymentId) = gatewaySignature

-----------------------------------------------------------------------------
(* What a client can send.  The gateway signs a payment of one of its own  *)
(* charges; a client holds such receipts, or forges a signature.           *)

PayOf(g) == g   \* the gateway's payment id for the payment of charge g

Receipt(g) == [pay |-> PayOf(g), sig |-> Hmac(g, PayOf(g))]

ForgedReceipt == [pay |-> 1, sig |-> ForgedSig]

Receipts == {Receipt(g) : g \in DOMAIN charges} \cup {ForgedReceipt}

EmptyPayload ==
    [razorpay_order_id |-> 0, transactionId |-> 0, orderId |-> 0, order_id |-> 0,
     razorpay_payment_id |-> 0, paymentId |-> 0,
     razorpay_signature |-> NoSig, signature |-> NoSig, checksum |-> NoSig,
     orderIds |-> {}]

\* the reference provider's checkout callback
RazorpayPayload(g, r) ==
    [EmptyPayload EXCEPT !.razorpay_order_id = g,
                         !.razorpay_payment_id = r.pay,
                         !.razorpay_signature = r.sig]

\* the other providers' field names
GenericPayload(t, o, r) ==
    [EmptyPayload EXCEPT !.transactionId = t, !.orderId = o,
                         !.razorpay_payment_id = r.pay,
                         !.razorpay_signature = r.sig]

UnknownGatewayId == MaxOrders + 1

VerifyPayloads ==
    {EmptyPayload, RazorpayPayload(UnknownGatewayId, ForgedReceipt)}
    \cup {RazorpayPayload(g, r) : g \in DOMAIN charges, r \in Receipts}
    \cup {GenericPayload(t, o, Receipt(o)) : t \in DOMAIN charges, o \in DOMAIN charges}

RazorpayPayloads ==
    {EmptyPayload, RazorpayPayload(UnknownGatewayId, ForgedReceipt)}
    \cup {RazorpayPayload(g, r) : g \in DOMAIN charges, r \in Receipts}

\* orderIds: the ids the client names (UnknownOrderId is no row)
UnknownOrderId == MaxOrders + 1

CartVerifyPayloads ==
    {EmptyPayload, RazorpayPayload(UnknownGatewayId, ForgedReceipt)}
    \cup UNION {UNION {
            {[RazorpayPayload(g, r) EXCEPT !.orderIds = ids] :
                ids \in SUBSET (DOMAIN orders \cup {UnknownOrderId})} :
            r \in {Receipt(g), ForgedReceipt}} :
            g \in DOMAIN charges}

\* JavaScript's a || b on ids (0 stands for an absent field)
Or(a, b) == IF a # 0 THEN a ELSE b

OrSig(a, b) == IF a # NoSig THEN a ELSE b

-----------------------------------------------------------------------------
(* Process slots.  pc names the statement a handler is about to execute;    *)
(* the other fields are its local variables.                                 *)

Idle == [pc |-> "idle", user |-> 0, crs |-> <<>>, provider |-> "", ords |-> {}, pay |-> 0]

AtRest(p) == procs[p].pc = "idle"

\* the handler goes on to its next statement
Goto(p, rec) ==
    /\ procs' = [procs EXCEPT ![p] = rec]
    /\ reply' = reply

\* the handler returns or throws: res names the answer
Return(p, res) ==
    /\ procs' = [procs EXCEPT ![p] = Idle]
    /\ reply' = res

\* answers thrown as errors, by class, and answers returned as success
ValidationErrors ==
    {"CourseUnavailable", "FreeCourse", "AlreadyEnrolledError", "WaitRetry",
     "CartEmpty", "NoOrderId", "OrderFailed", "InvalidSignature"}
NotFoundErrors == {"CourseNotFound", "OrderNotFound"}
NotImplementedErrors == {"NotImplemented"}
InternalErrors == {"GatewayError", "GatewayIdWriteError"}
Successes ==
    {"Initiated", "Verified", "PaymentAlreadyProcessed", "AlreadyEnrolled",
     "OrderAlreadyProcessed", "OrderCancelled"}

\* order rows still to be created by initiations in flight
Reserved ==
    LET need(p) == IF procs[p].pc \in {"bn_pending", "bn_create", "cc_pending", "cc_create"}
                   THEN Len(procs[p].crs) ELSE 0
        RECURSIVE Sum(_)
        Sum(n) == IF n = 0 THEN 0 ELSE need(n) + Sum(n - 1)
    IN  Sum(NumProcs)

\* enrollment.findUnique({userId_courseId})
Enrolled(u, c) == BagIn(<<u, c>>, enrollments)

SetStatus(os, ids, st) ==
    [i \in DOMAIN os |-> IF i \in ids THEN [os[i] EXCEPT !.status = st] ELSE os[i]]

Min(S) == CHOOSE x \in S : \A y \in S : x <= y

\* the order tables and the handlers at start-up
OrdersInit ==
    /\ orders = <<>>
    /\ enrollments = EmptyBag
    /\ payments = EmptyBag
    /\ carts = [u \in Users |-> InitialCart(u)]
    /\ activeGateway = ""
    /\ charges = <<>>
    /\ now = 0
    /\ procs = [p \in Procs |-> Idle]
    /\ sigFailed = {}
    /\ sessions = <<>>
    /\ cache = {}

Init ==
    /\ OrdersInit
    /\ reply = ""
    /\ coupons = <<>>
    /\ couponUsages = <<>>
    /\ couponSystemEnabled = TRUE
    /\ validFor = {}

-----------------------------------------------------------------------------
(* initiateBuyNowOrder(userId, courseId) *)

\* anchor (history): the first order row of the call that created this row
NewOrder(u, c, prov, anchor) ==
    [userId |-> u, courseId |-> c, amount |-> CoursePrice(c), status |-> "PENDING",
     provider |-> prov, gatewayOrderId |-> 0, createdAt |-> now, anchor |-> anchor]

TimeoutMs == TIMEOUT_MINUTES * 60 * 1000

\* the window compared in seconds against an age in milliseconds
FreshBySeconds(ageMs) == ageMs < TIMEOUT_MINUTES * 60

\* "if (ageMs < timeoutMs)": the pending order is still fresh, the user must wait
OrderStillFresh(ageMs) == ageMs < TimeoutMs

\* findFirst({userId, courseId, status: PENDING}, orderBy createdAt desc)
NewestPending(u, c) ==
    LET pend == {i \in DOMAIN orders : /\ orders[i].userId = u
                                       /\ orders[i].courseId = c
                                       /\ orders[i].status = "PENDING"}
    IN  {i \in pend : \A j \in pend : orders[j].createdAt <= orders[i].createdAt}

\* the validation without the look at the user's enrollments
BuyNowCheckNoEnrollment(p, u, c) ==
    /\ AtRest(p)
    /\ UNCHANGED couponVars
    /\ UNCHANGED sessionVars
    /\ UNCHANGED <<orders, enrollments, payments, carts, activeGateway, charges, now, sigFailed>>
    /\ IF c \notin CourseIds THEN Return(p, "CourseNotFound")
       ELSE IF CourseStatus(c) # "PUBLISHED" THEN Return(p, "CourseUnavailable")
       ELSE IF CoursePrice(c) = 0 THEN Return(p, "FreeCourse")
       ELSE /\ Len(orders) + Reserved + 1 <= MaxOrders
            /\ Goto(p, [Idle EXCEPT !.pc = "bn_pending", !.user = u, !.crs = <<c>>])

\* STEP 1 and 2: the course row and the enrollment check
BuyNowCheck(p, u, c) ==
    /\ AtRest(p)
    /\ UNCHANGED couponVars
    /\ UNCHANGED sessionVars
    /\ UNCHANGED <<orders, enrollments, payments, carts, activeGateway, charges, now, sigFailed>>
    /\ IF c \notin CourseIds THEN Return(p, "CourseNotFound")
       ELSE IF CourseStatus(c) # "PUBLISHED" THEN Return(p, "CourseUnavailable")
       ELSE IF CoursePrice(c) = 0 THEN Return(p, "FreeCourse")
       ELSE IF Enrolled(u, c) THEN Return(p, "AlreadyEnrolledError")
       ELSE /\ Len(orders) + Reserved + 1 <= MaxOrders
            /\ Goto(p, [Idle EXCEPT !.pc = "bn_pending", !.user = u, !.crs = <<c>>])

\* STEP 2A and 3: the pending-order check, then the active gateway
BuyNowPending(p) ==
    /\ procs[p].pc = "bn_pending"
    /\ UNCHANGED couponVars
    /\ UNCHANGED sessionVars
    /\ UNCHANGED <<orders, enrollments, payments, carts, activeGateway, charges, now, sigFailed>>
    /\ LET u == procs[p].user
           c == procs[p].crs[1]
       IN  IF \E i \in NewestPending(u, c) : OrderStillFresh(now - orders[i].createdAt)
           THEN Return(p, "WaitRetry")
           ELSE Goto(p, [procs[p] EXCEPT !.pc = "bn_create",
                                         !.provider = GetPaymentProvider(activeGateway)])

\* the same step when the read of the setting fails: getActiveProviderFromDB
\* catches the error and answers as if no setting were stored
BuyNowPendingReadFails(p) ==
    /\ procs[p].pc = "bn_pending"
    /\ UNCHANGED couponVars
    /\ UNCHANGED sessionVars
    /\ UNCHANGED <<orders, enrollments, payments, carts, activeGateway, charges, now, sigFailed>>
    /\ LET u == procs[p].user
           c == procs[p].crs[1]
       IN  IF \E i \in NewestPending(u, c) : OrderStillFresh(now - orders[i].createdAt)
           THEN Return(p, "WaitRetry")
           ELSE Goto(p, [procs[p] EXCEPT !.pc = "bn_create",
                                         !.provider = GetPaymentProvider("")])

\* STEP 4: the local order row, PENDING
BuyNowCreate(p) ==
    /\ procs[p].pc = "bn_create"
    /\ orders' = Append(orders, NewOrder(procs[p].user, procs[p].crs[1], procs[p].provider,
                                         Len(orders) + 1))
    /\ Goto(p, [procs[p] EXCEPT !.pc = "bn_gateway", !.ords = {Len(orders) + 1}])
    /\ UNCHANGED couponVars
    /\ UNCHANGED sessionVars
    /\ UNCHANGED <<enrollments, payments, carts, activeGateway, charges, now, sigFailed>>

\* a catch block that rethrows without touching the order
RethrowOnly(os, ids) == os

\* the catch block of initiateBuyNowOrder: mark the order FAILED, then rethrow
BuyNowOnGatewayError(os, ids) == SetStatus(os, ids, "FAILED")

\* the catch block of initiateCartCheckout: updateMany to FAILED, then rethrow
CartOnGatewayError(os, ids) == SetStatus(os, ids, "FAILED")

\* the gateway's own record of an order it created
NewCharge(adapter, amount, ref) == [provider |-> adapter, amount |-> amount, ref |-> ref]

\* the adapter's createOrder and the write of the gateway order id after it,
\* with the catch block around both.  The gateway call touches no table, so
\* it is one step with the write.  onError: the Order table as the catch
\* block leaves it; gatewayOk: the gateway accepted the call;
\* writeOk: the update of gatewayOrderId went through.
GatewayStep(p, first, amount, onError, gatewayOk, writeOk) ==
    LET adapter == procs[p].provider
        ids == procs[p].ords
        g == Len(charges) + 1
    IN  IF ~AdapterImplemented(adapter)
        THEN /\ orders' = onError
             /\ charges' = charges
             /\ Return(p, "NotImplemented")
        ELSE IF ~gatewayOk
        THEN /\ orders' = onError
             /\ charges' = charges
             /\ Return(p, "GatewayError")
        ELSE IF ~writeOk
        THEN /\ orders' = onError
             /\ charges' = Append(charges, NewCharge(adapter, amount, first))
             /\ Return(p, "GatewayIdWriteError")
        ELSE /\ orders' = [orders EXCEPT ![first].gatewayOrderId = g]
             /\ charges' = Append(charges, NewCharge(adapter, amount, first))
             /\ Return(p, "Initiated")

\* STEP 5 to 7
BuyNowGateway(p, gatewayOk, writeOk) ==
    /\ procs[p].pc = "bn_gateway"
    /\ LET o == Min(procs[p].ords)
       IN  GatewayStep(p, o, orders[o].amount, BuyNowOnGatewayError(orders, procs[p].ords),
                       gatewayOk, writeOk)
    /\ UNCHANGED couponVars
    /\ UNCHANGED sessionVars
    /\ UNCHANGED <<enrollments, payments, carts, activeGateway, now, sigFailed>>

-----------------------------------------------------------------------------
(* initiateCartCheckout(userId) *)

\* STEP 1 and 2: the cart, its courses, and the enrollment check
CartCheck(p, u) ==
    /\ AtRest(p)
    /\ UNCHANGED couponVars
    /\ UNCHANGED sessionVars
    /\ UNCHANGED <<orders, enrollments, payments, carts, activeGateway, charges, now, sigFailed>>
    /\ LET courses == carts[u]
       IN  IF Len(courses) = 0 THEN Return(p, "CartEmpty")
           ELSE IF \E c \in Range(courses) : CourseStatus(c) # "PUBLISHED"
           THEN Return(p, "CourseUnavailable")
           ELSE IF \E c \in Range(courses) : CoursePrice(c) = 0
           THEN Return(p, "FreeCourse")
           ELSE IF \E c \in Range(courses) : Enrolled(u, c)
           THEN Return(p, "AlreadyEnrolledError")
           ELSE /\ Len(orders) + Reserved + Len(courses) <= MaxOrders
                /\ Goto(p, [Idle EXCEPT !.pc = "cc_pending", !.user = u, !.crs = courses])

\* STEP 3 to 5: a recent pending order for any course of the cart; the gateway
CartPending(p) ==
    /\ procs[p].pc = "cc_pending"
    /\ UNCHANGED couponVars
    /\ UNCHANGED sessionVars
    /\ UNCHANGED <<orders, enrollments, payments, carts, activeGateway, charges, now, sigFailed>>
    /\ LET u == procs[p].user
           cutoffTime == now - TIMEOUT_MINUTES * 60 * 1000
       IN  IF \E i \in DOMAIN orders : /\ orders[i].userId = u
                                       /\ orders[i].courseId \in Range(procs[p].crs)
                                       /\ orders[i].status = "PENDING"
                                       /\ orders[i].createdAt > cutoffTime
           THEN Return(p, "WaitRetry")
           ELSE Goto(p, [procs[p] EXCEPT !.pc = "cc_create",
                                         !.provider = GetPaymentProvider(activeGateway)])

\* the same step when the read of the setting fails
CartPendingReadFails(p) ==
    /\ procs[p].pc = "cc_pending"
    /\ UNCHANGED couponVars
    /\ UNCHANGED sessionVars
    /\ UNCHANGED <<orders, enrollments, payments, carts, activeGateway, charges, now, sigFailed>>
    /\ LET u == procs[p].user
           cutoffTime == now - TIMEOUT_MINUTES * 60 * 1000
       IN  IF \E i \in DOMAIN orders : /\ orders[i].userId = u
                                       /\ orders[i].courseId \in Range(procs[p].crs)
                                       /\ orders[i].status = "PENDING"
                                       /\ orders[i].createdAt > cutoffTime
           THEN Return(p, "WaitRetry")
           ELSE Goto(p, [procs[p] EXCEPT !.pc = "cc_create",
                                         !.provider = GetPaymentProvider("")])

\* STEP 6: one order row per course, in one transaction
CartCreate(p) ==
    /\ procs[p].pc = "cc_create"
    /\ LET cs == procs[p].crs
       IN  /\ orders' = orders \o [k \in 1..Len(cs) |->
                                      NewOrder(procs[p].user, cs[k], procs[p].provider,
                                               Len(orders) + 1)]
           /\ Goto(p, [procs[p] EXCEPT !.pc = "cc_gateway",
                                       !.ords = (Len(orders) + 1)..(Len(orders) + Len(cs))])
    /\ UNCHANGED couponVars
    /\ UNCHANGED sessionVars
    /\ UNCHANGED <<enrollments, payments, carts, activeGateway, charges, now, sigFailed>>

\* the gateway order charged with the first order's amount instead of the total
CartGatewayFirstAmount(p, gatewayOk, writeOk) ==
    /\ procs[p].pc = "cc_gateway"
    /\ GatewayStep(p, Min(procs[p].ords), orders[Min(procs[p].ords)].amount,
                   CartOnGatewayError(orders, procs[p].ords), gatewayOk, writeOk)
    /\ UNCHANGED couponVars
    /\ UNCHANGED sessionVars
    /\ UNCHANGED <<enrollments, payments, carts, activeGateway, now, sigFailed>>

\* STEP 7: one gateway order for the total, its id stored on the first order
CartGateway(p, gatewayOk, writeOk) ==
    /\ procs[p].pc = "cc_gateway"
    /\ GatewayStep(p, Min(procs[p].ords), SumPrices(procs[p].crs),
                   CartOnGatewayError(orders, procs[p].ords), gatewayOk, writeOk)
    /\ UNCHANGED couponVars
    /\ UNCHANGED sessionVars
    /\ UNCHANGED <<enrollments, payments, carts, activeGateway, now, sigFailed>>

-----------------------------------------------------------------------------
(* The completing transaction of both verifications *)

\* enrollment.create hits the unique index on (userId, courseId): error P2002
EnrollmentConflict(ids) ==
    \/ \E i \in ids : Enrolled(orders[i].userId, orders[i].courseId)
    \/ \E i, j \in ids : /\ i # j
                         /\ orders[i].userId = orders[j].userId
                         /\ orders[i].courseId = orders[j].courseId

PaymentsOf(i) == {r \in BagToSet(payments) : r.orderId = i}

\* payment.create hits the unique index on orderId (Order.payment is 1:1): P2002
PaymentConflict(ids) == \E i \in ids : PaymentsOf(i) # {}

PaymentRow(i, gatewayPaymentId) ==
    [orderId |-> i, userId |-> orders[i].userId, courseId |-> orders[i].courseId,
     amount |-> orders[i].amount, provider |-> orders[i].provider,
     gatewayPaymentId |-> gatewayPaymentId]

RemoveCourses(cart, cs) == SelectSeq(cart, LAMBDA c : c \notin cs)

\* tx.order.update COMPLETED, tx.enrollment.create, tx.payment.create per order
CompleteOrders(ids, gatewayPaymentId) ==
    /\ orders' = SetStatus(orders, ids, "COMPLETED")
    /\ enrollments' = enrollments (+)
                        SetToBag({<<orders[i].userId, orders[i].courseId>> : i \in ids})
    /\ payments' = payments (+) SetToBag({PaymentRow(i, gatewayPaymentId) : i \in ids})

-----------------------------------------------------------------------------
(* verifyPaymentSignature(userId, paymentData); userId is only logged *)

\* a status check that refuses FAILED orders only
DispositionWithoutCompleted(status) ==
    CASE status = "FAILED" -> "OrderFailed"
      [] OTHER             -> ""

\* what the status of the order found decides: an early answer, or "" to go on
VerifyDisposition(status) ==
    CASE status = "COMPLETED" -> "PaymentAlreadyProcessed"
      [] status = "FAILED"    -> "OrderFailed"
      [] OTHER                -> ""

\* the gateway order id the order is looked up by
LookupId(pd) == Or(pd.razorpay_order_id, Or(pd.transactionId, Or(pd.orderId, pd.order_id)))

OrderByGatewayId(g) == {i \in DOMAIN orders : orders[i].gatewayOrderId = g}

\* the gateway order id handed to the adapter's verifyPayment
VerifyOrderId(pd) == Or(pd.razorpay_order_id, Or(pd.orderId, LookupId(pd)))

\* STEP 1 to 4: the order by gateway order id, then the signature check with
\* the order's own provider (the reference adapter computes it locally)
VerifyLookup(p, pd) ==
    /\ AtRest(p)
    /\ UNCHANGED couponVars
    /\ UNCHANGED sessionVars
    /\ UNCHANGED <<orders, enrollments, payments, carts, activeGateway, charges, now, sigFailed>>
    /\ LET gatewayOrderId == LookupId(pd)
           found == OrderByGatewayId(gatewayOrderId)
       IN  IF gatewayOrderId = 0 THEN Return(p, "NoOrderId")
           ELSE IF found = {} THEN Return(p, "OrderNotFound")
           ELSE LET o == Min(found)
                    early == VerifyDisposition(orders[o].status)
                    adapter == GetPaymentProviderByName(orders[o].provider)
                    vOrder == VerifyOrderId(pd)
                    vPay == Or(pd.razorpay_payment_id, Or(pd.transactionId, pd.paymentId))
                    vSig == OrSig(pd.razorpay_signature, OrSig(pd.signature, pd.checksum))
                IN  IF early # "" THEN Return(p, early)
                    ELSE IF ~AdapterImplemented(adapter) THEN Return(p, "NotImplemented")
                    ELSE Goto(p, [Idle EXCEPT
                                    !.pc = IF RazorpayVerify(vOrder, vPay, vSig)
                                           THEN "vp_commit" ELSE "vp_fail",
                                    !.provider = adapter, !.ords = {o}, !.pay = vPay])

\* STEP 5: invalid signature, the order is marked FAILED
VerifyFail(p) ==
    /\ procs[p].pc = "vp_fail"
    /\ orders' = SetStatus(orders, procs[p].ords, "FAILED")
    /\ sigFailed' = sigFailed \cup procs[p].ords
    /\ Return(p, "InvalidSignature")
    /\ UNCHANGED couponVars
    /\ UNCHANGED sessionVars
    /\ UNCHANGED <<enrollments, payments, carts, activeGateway, charges, now>>

\* the transaction without the P2002 case: every failure is an internal error
VerifyCommitNoP2002(p) ==
    /\ procs[p].pc = "vp_commit"
    /\ LET ids == procs[p].ords
           o == Min(ids)
       IN  IF EnrollmentConflict(ids) \/ PaymentConflict(ids)
           THEN /\ UNCHANGED <<orders, enrollments, payments, carts>>
                /\ Return(p, "EnrollmentFailed")
           ELSE /\ CompleteOrders(ids, procs[p].pay)
                /\ carts' = [carts EXCEPT ![orders[o].userId] =
                                RemoveCourses(@, {orders[o].courseId})]
                /\ Return(p, "Verified")
    /\ UNCHANGED couponVars
    /\ UNCHANGED sessionVars
    /\ UNCHANGED <<activeGateway, charges, now, sigFailed>>

\* STEP 6: the transaction; P2002 rolls it back and is answered as success
VerifyCommit(p) ==
    /\ procs[p].pc = "vp_commit"
    /\ LET ids == procs[p].ords
           o == Min(ids)
       IN  IF EnrollmentConflict(ids) \/ PaymentConflict(ids)
           THEN /\ UNCHANGED <<orders, enrollments, payments, carts>>
                /\ Return(p, "AlreadyEnrolled")
           ELSE /\ CompleteOrders(ids, procs[p].pay)
                /\ carts' = [carts EXCEPT ![orders[o].userId] =
                                RemoveCourses(@, {orders[o].courseId})]
                /\ Return(p, "Verified")
    /\ UNCHANGED couponVars
    /\ UNCHANGED sessionVars
    /\ UNCHANGED <<activeGateway, charges, now, sigFailed>>

-----------------------------------------------------------------------------
(* cancelOrder(userId, orderId), of the controller *)

\* a lookup by id and status that forgets the owner
CancelFindsAnyOwner(u, orderId) ==
    /\ orderId \in DOMAIN orders
    /\ orders[orderId].status = "PENDING"

\* findFirst({id: orderId, userId, status: PENDING})
CancelFinds(u, orderId) ==
    /\ orderId \in DOMAIN orders
    /\ orders[orderId].userId = u
    /\ orders[orderId].status = "PENDING"

CancelLookup(p, u, orderId) ==
    /\ AtRest(p)
    /\ UNCHANGED couponVars
    /\ UNCHANGED sessionVars
    /\ UNCHANGED <<orders, enrollments, payments, carts, activeGateway, charges, now, sigFailed>>
    /\ IF CancelFinds(u, orderId)
       THEN Goto(p, [Idle EXCEPT !.pc = "co_update", !.user = u, !.ords = {orderId}])
       ELSE Return(p, "OrderAlreadyProcessed")

\* order.update({where: {id: orderId}, data: {status: FAILED}})
CancelUpdate(p) ==
    /\ procs[p].pc = "co_update"
    /\ orders' = SetStatus(orders, procs[p].ords, "FAILED")
    /\ Return(p, "OrderCancelled")
    /\ UNCHANGED couponVars
    /\ UNCHANGED sessionVars
    /\ UNCHANGED <<enrollments, payments, carts, activeGateway, charges, now, sigFailed>>

-----------------------------------------------------------------------------
(* verifyCartPayment(userId, paymentData) *)

\* the orders the verification works on: by gateway order id, replaced by the
\* caller's PENDING orders among orderIds when one row matched and the list
\* names more than one id
CartOrdersFoundAnyOwner(u, gatewayOrderId, orderIds) ==
    LET byGateway == OrderByGatewayId(gatewayOrderId)
    IN  IF Cardinality(byGateway) = 1 /\ Cardinality(orderIds) > 1
        THEN {i \in orderIds \cap DOMAIN orders : orders[i].status = "PENDING"}
        ELSE byGateway

CartOrdersFound(u, gatewayOrderId, orderIds) ==
    LET byGateway == OrderByGatewayId(gatewayOrderId)
    IN  IF Cardinality(byGateway) = 1 /\ Cardinality(orderIds) > 1
        THEN {i \in orderIds \cap DOMAIN orders : /\ orders[i].userId = u
                                                  /\ orders[i].status = "PENDING"}
        ELSE byGateway

\* the lookups and the signature check with the provider of orders[0]; findMany
\* has no orderBy, so any row found can come first
CartVerifyLookup(p, u, pd) ==
    /\ AtRest(p)
    /\ UNCHANGED couponVars
    /\ UNCHANGED sessionVars
    /\ UNCHANGED <<orders, enrollments, payments, carts, activeGateway, charges, now, sigFailed>>
    /\ LET gatewayOrderId == LookupId(pd)
           found == CartOrdersFound(u, gatewayOrderId, pd.orderIds)
           vOrder == Or(pd.razorpay_order_id, Or(pd.orderId, gatewayOrderId))
           vPay == Or(pd.razorpay_payment_id, pd.transactionId)
           vSig == OrSig(pd.razorpay_signature, pd.signature)
       IN  IF gatewayOrderId = 0 THEN Return(p, "NoOrderId")
           ELSE IF found = {} THEN Return(p, "OrderNotFound")
           ELSE IF \A i \in found : orders[i].status = "COMPLETED"
           THEN Return(p, "PaymentAlreadyProcessed")
           ELSE \E first \in found :
                   IF ~AdapterImplemented(GetPaymentProviderByName(orders[first].provider))
                   THEN Return(p, "NotImplemented")
                   ELSE Goto(p, [Idle EXCEPT
                                    !.pc = IF RazorpayVerify(vOrder, vPay, vSig)
                                           THEN "vc_commit" ELSE "vc_fail",
                                    !.user = u, !.ords = found, !.pay = vPay,
                                    !.provider =
                                        GetPaymentProviderByName(orders[first].provider)])

\* invalid signature: updateMany to FAILED
CartVerifyFail(p) ==
    /\ procs[p].pc = "vc_fail"
    /\ orders' = SetStatus(orders, procs[p].ords, "FAILED")
    /\ Return(p, "InvalidSignature")
    /\ UNCHANGED couponVars
    /\ UNCHANGED sessionVars
    /\ UNCHANGED <<enrollments, payments, carts, activeGateway, charges, now, sigFailed>>

\* the transaction over every order found, then the caller's cart is cleared
CartVerifyCommit(p) ==
    /\ procs[p].pc = "vc_commit"
    /\ LET ids == procs[p].ords
       IN  IF EnrollmentConflict(ids) \/ PaymentConflict(ids)
           THEN /\ UNCHANGED <<orders, enrollments, payments, carts>>
                /\ Return(p, "AlreadyEnrolled")
           ELSE /\ CompleteOrders(ids, procs[p].pay)
                /\ carts' = [carts EXCEPT ![procs[p].user] = <<>>]
                /\ Return(p, "Verified")
    /\ UNCHANGED couponVars
    /\ UNCHANGED sessionVars
    /\ UNCHANGED <<activeGateway, charges, now, sigFailed>>

-----------------------------------------------------------------------------
(* The coupon engine: validateCoupon and consumeCoupon.  Amounts are in      *)
(* thousandths of a rupee, so that an amount can carry a fraction of a       *)
(* paisa; a percentage is a whole number.                                    *)

Null == -1      \* a nullable column holding null

\* code.trim().toUpperCase(), on the codes clients send
CouponInputs == {"SAVE20", " save20 ", "NOPE"}

NormalizeCode(code) == IF code = " save20 " THEN "SAVE20" ELSE code

MathMin(a, b) == IF a < b THEN a ELSE b

\* Math.round(x * 100) / 100 for x in hundred-thousandths of a rupee, the
\* result in thousandths; Math.round rounds a half towards plus infinity
RoundToPaise(x) == ((x + 500) \div 1000) * 10

\* the discount with the cap of a PERCENTAGE coupon left out
DiscountAmountUncapped(coupon, orderAmount) ==
    LET raw == IF coupon.discountType = "PERCENTAGE"
               THEN orderAmount * coupon.discountValue
               ELSE coupon.discountValue * 100
    IN  RoundToPaise(MathMin(raw, orderAmount * 100))

\* 7. and 8.: the discount, in hundred-thousandths until it is rounded
DiscountAmount(coupon, orderAmount) ==
    LET percentage == orderAmount * coupon.discountValue
        capped == IF coupon.maxDiscountAmount # Null
                  THEN MathMin(percentage, coupon.maxDiscountAmount * 100)
                  ELSE percentage
        raw == IF coupon.discountType = "PERCENTAGE" THEN capped
               ELSE coupon.discountValue * 100
    IN  RoundToPaise(MathMin(raw, orderAmount * 100))

FinalAmount(orderAmount, discountAmount) == RoundToPaise((orderAmount - discountAmount) * 100)

\* the results of validateCoupon and of consumeCoupon
NoResult == [kind |-> "none"]

InvalidResult(reason) ==
    [kind |-> "validate", valid |-> FALSE, reason |-> reason, discountAmount |-> 0,
     finalAmount |-> 0]

ValidResult(discountAmount, finalAmount) ==
    [kind |-> "validate", valid |-> TRUE, reason |-> "", discountAmount |-> discountAmount,
     finalAmount |-> finalAmount]

ConsumeResult(ok) == [kind |-> "consume", ok |-> ok]

\* rows of CouponUsage counted for a coupon and a user
UserUsageCount(couponId, userId) ==
    Cardinality({k \in DOMAIN couponUsages :
                    /\ couponUsages[k].couponId = couponId
                    /\ couponUsages[k].userId = userId})

\* validateCoupon with the global usage cap checked before the active flag
ValidateFindCapFirst(p, code, userId, courseId, orderAmount) ==
    /\ AtRest(p)
    /\ UNCHANGED couponVars
    /\ UNCHANGED sessionVars
    /\ UNCHANGED <<orders, enrollments, payments, carts, activeGateway, charges, now, sigFailed>>
    /\ LET normalizedCode == NormalizeCode(code)
       IN  IF ~couponSystemEnabled THEN Return(p, InvalidResult("DISABLED"))
           ELSE IF normalizedCode \notin DOMAIN coupons
           THEN Return(p, InvalidResult("NOT_FOUND"))
           ELSE LET coupon == coupons[normalizedCode]
                IN  IF /\ coupon.totalUsageLimit # Null
                       /\ coupon.usedCount >= coupon.totalUsageLimit
                    THEN Return(p, InvalidResult("LIMIT_EXCEEDED"))
                    ELSE IF ~coupon.isActive THEN Return(p, InvalidResult("INACTIVE"))
                    ELSE IF coupon.validFrom > now
                    THEN Return(p, InvalidResult("NOT_STARTED"))
                    ELSE IF coupon.validTill # Null /\ coupon.validTill < now
                    THEN Return(p, InvalidResult("EXPIRED"))
                    ELSE Goto(p, [pc |-> "vc_count", user |-> userId,
                                  amount |-> orderAmount, coupon |-> coupon,
                                  at |-> now])

\* validateCoupon up to its second query: the feature flag, the coupon row,
\* and the checks 1 to 4 on that row
ValidateFind(p, code, userId, courseId, orderAmount) ==
    /\ AtRest(p)
    /\ UNCHANGED couponVars
    /\ UNCHANGED sessionVars
    /\ UNCHANGED <<orders, enrollments, payments, carts, activeGateway, charges, now, sigFailed>>
    /\ LET normalizedCode == NormalizeCode(code)
       IN  IF ~couponSystemEnabled THEN Return(p, InvalidResult("DISABLED"))
           ELSE IF normalizedCode \notin DOMAIN coupons
           THEN Return(p, InvalidResult("NOT_FOUND"))
           ELSE LET coupon == coupons[normalizedCode]
                IN  IF ~coupon.isActive THEN Return(p, InvalidResult("INACTIVE"))
                    ELSE IF coupon.validFrom > now
                    THEN Return(p, InvalidResult("NOT_STARTED"))
                    ELSE IF coupon.validTill # Null /\ coupon.validTill < now
                    THEN Return(p, InvalidResult("EXPIRED"))
                    ELSE IF /\ coupon.totalUsageLimit # Null
                            /\ coupon.usedCount >= coupon.totalUsageLimit
                    THEN Return(p, InvalidResult("LIMIT_EXCEEDED"))
                    ELSE Goto(p, [pc |-> "vc_count", user |-> userId,
                                  amount |-> orderAmount, coupon |-> coupon,
                                  at |-> now])

\* a validation that records the usage itself when the coupon is valid
ValidateCountConsuming(p) ==
    /\ procs[p].pc = "vc_count"
    /\ UNCHANGED couponSystemEnabled
    /\ UNCHANGED sessionVars
    /\ UNCHANGED <<orders, enrollments, payments, carts, activeGateway, charges, now, sigFailed>>
    /\ LET coupon == procs[p].coupon
           orderAmount == procs[p].amount
           discountAmount == DiscountAmount(coupon, orderAmount)
       IN  IF UserUsageCount(coupon.id, procs[p].user) >= coupon.perUserLimit
           THEN /\ UNCHANGED <<coupons, couponUsages>>
                /\ Return(p, InvalidResult("USER_LIMIT_EXCEEDED"))
           ELSE IF coupon.minOrderAmount # Null /\ orderAmount < coupon.minOrderAmount
           THEN /\ UNCHANGED <<coupons, couponUsages>>
                /\ Return(p, InvalidResult("MIN_ORDER_NOT_MET"))
           ELSE /\ coupons' = [code \in DOMAIN coupons |->
                                  IF coupons[code].id = coupon.id
                                  THEN [coupons[code] EXCEPT !.usedCount = @ + 1]
                                  ELSE coupons[code]]
                /\ couponUsages' = couponUsages
                /\ Return(p, ValidResult(discountAmount,
                                         FinalAmount(orderAmount, discountAmount)))
    /\ validFor' = IF reply'.valid THEN validFor \cup {procs[p].user} ELSE validFor

\* the checks 5 and 6 and the discount, on the user's usage count
ValidateCount(p) ==
    /\ procs[p].pc = "vc_count"
    /\ UNCHANGED <<coupons, couponUsages, couponSystemEnabled>>
    /\ UNCHANGED sessionVars
    /\ UNCHANGED <<orders, enrollments, payments, carts, activeGateway, charges, now, sigFailed>>
    /\ LET coupon == procs[p].coupon
           orderAmount == procs[p].amount
           discountAmount == DiscountAmount(coupon, orderAmount)
       IN  IF UserUsageCount(coupon.id, procs[p].user) >= coupon.perUserLimit
           THEN Return(p, InvalidResult("USER_LIMIT_EXCEEDED"))
           ELSE IF coupon.minOrderAmount # Null /\ orderAmount < coupon.minOrderAmount
           THEN Return(p, InvalidResult("MIN_ORDER_NOT_MET"))
           ELSE Return(p, ValidResult(discountAmount, FinalAmount(orderAmount, discountAmount)))
    /\ validFor' = IF reply'.valid THEN validFor \cup {procs[p].user} ELSE validFor

\* consumeCoupon up to its second query: the feature flag and the coupon row
ConsumeFind(p, couponCode, userId, orderId) ==
    /\ AtRest(p)
    /\ UNCHANGED couponVars
    /\ UNCHANGED sessionVars
    /\ UNCHANGED <<orders, enrollments, payments, carts, activeGateway, charges, now, sigFailed>>
    /\ LET normalizedCode == NormalizeCode(couponCode)
       IN  IF ~couponSystemEnabled THEN Return(p, ConsumeResult(FALSE))
           ELSE IF normalizedCode \notin DOMAIN coupons THEN Return(p, ConsumeResult(TRUE))
           ELSE Goto(p, [pc |-> "cs_usage", user |-> userId, orderId |-> orderId,
                         code |-> normalizedCode])

\* a row of CouponUsage holds the order id
UsageExists(orderId) == \E k \in DOMAIN couponUsages : couponUsages[k].orderId = orderId

\* the guard against double consumption
ConsumeUsage(p) ==
    /\ procs[p].pc = "cs_usage"
    /\ UNCHANGED couponVars
    /\ UNCHANGED sessionVars
    /\ UNCHANGED <<orders, enrollments, payments, carts, activeGateway, charges, now, sigFailed>>
    /\ IF UsageExists(procs[p].orderId) THEN Return(p, ConsumeResult(TRUE))
       ELSE Goto(p, [procs[p] EXCEPT !.pc = "cs_write"])

\* the increment and the usage row, written whatever the table holds
ConsumeWriteNoUnique(p) ==
    /\ procs[p].pc = "cs_write"
    /\ coupons' = [coupons EXCEPT ![procs[p].code].usedCount = @ + 1]
    /\ couponUsages' = Append(couponUsages,
                              [couponId |-> coupons[procs[p].code].id,
                               userId |-> procs[p].user, orderId |-> procs[p].orderId])
    /\ Return(p, ConsumeResult(TRUE))
    /\ UNCHANGED <<couponSystemEnabled, validFor>>
    /\ UNCHANGED sessionVars
    /\ UNCHANGED <<orders, enrollments, payments, carts, activeGateway, charges, now, sigFailed>>

\* the two writes outside a transaction: a refused row leaves the increment
ConsumeWriteNoRollback(p) ==
    /\ procs[p].pc = "cs_write"
    /\ coupons' = [coupons EXCEPT ![procs[p].code].usedCount = @ + 1]
    /\ IF UsageExists(procs[p].orderId)
       THEN /\ UNCHANGED couponUsages
            /\ Return(p, ConsumeResult(FALSE))
       ELSE /\ couponUsages' = Append(couponUsages,
                                      [couponId |-> coupons[procs[p].code].id,
                                       userId |-> procs[p].user,
                                       orderId |-> procs[p].orderId])
            /\ Return(p, ConsumeResult(TRUE))
    /\ UNCHANGED <<couponSystemEnabled, validFor>>
    /\ UNCHANGED sessionVars
    /\ UNCHANGED <<orders, enrollments, payments, carts, activeGateway, charges, now, sigFailed>>

\* the increment, the usage row and the commit; the unique order id of
\* CouponUsage refuses a second row, the transaction rolls back and the
\* catch block answers false
ConsumeWrite(p) ==
    /\ procs[p].pc = "cs_write"
    /\ IF UsageExists(procs[p].orderId)
       THEN /\ UNCHANGED <<coupons, couponUsages>>
            /\ Return(p, ConsumeResult(FALSE))
       ELSE /\ coupons' = [coupons EXCEPT ![procs[p].code].usedCount = @ + 1]
            /\ couponUsages' = Append(couponUsages,
                                      [couponId |-> coupons[procs[p].code].id,
                                       userId |-> procs[p].user,
                                       orderId |-> procs[p].orderId])
            /\ Return(p, ConsumeResult(TRUE))
    /\ UNCHANGED <<couponSystemEnabled, validFor>>
    /\ UNCHANGED sessionVars
    /\ UNCHANGED <<orders, enrollments, payments, carts, activeGateway, charges, now, sigFailed>>

\* the amounts clients send: 499.00, 100.00, 5.00 and 10.006 rupees
OrderAmounts == {499000, 100000, 5000, 10006}

-----------------------------------------------------------------------------
(* The session service: createSession, validateSession, invalidateSession   *)
(* and invalidateAllSessions over the Session table and the Redis cache.     *)
(* A session's id is its index in the table; a slot holds the user in user,  *)
(* the rows a findMany or an updateMany saw in ords, a session id in pay.    *)
(* The database is PostgreSQL and the transaction states no isolation level, *)
(* so it runs READ COMMITTED: its updateMany sees the rows committed when    *)
(* the statement starts, and its writes are visible to others at commit.     *)

ActiveSessions(u) ==
    {s \in DOMAIN sessions : sessions[s].userId = u /\ sessions[s].isActive}

Deactivate(table, ids) ==
    [s \in DOMAIN table |-> IF s \in ids THEN [table[s] EXCEPT !.isActive = FALSE]
                            ELSE table[s]]

\* createSession: findMany of the user's active sessions
CreateSessionFind(p, u) ==
    /\ AtRest(p)
    /\ Len(sessions) < MaxSessions
    /\ Goto(p, [Idle EXCEPT !.pc = "ss_del", !.user = u, !.ords = ActiveSessions(u)])
    /\ UNCHANGED sessionVars
    /\ UNCHANGED couponVars
    /\ UNCHANGED <<orders, enrollments, payments, carts, activeGateway, charges, now, sigFailed>>

\* redis.del of every session found
CreateSessionDel(p) ==
    /\ procs[p].pc = "ss_del"
    /\ cache' = cache \ procs[p].ords
    /\ Goto(p, [procs[p] EXCEPT !.pc = "ss_update"])
    /\ UNCHANGED sessions
    /\ UNCHANGED couponVars
    /\ UNCHANGED <<orders, enrollments, payments, carts, activeGateway, charges, now, sigFailed>>

\* the transaction's updateMany: the active sessions committed at this moment
CreateSessionUpdate(p) ==
    /\ procs[p].pc = "ss_update"
    /\ Goto(p, [procs[p] EXCEPT !.pc = "ss_commit", !.ords = ActiveSessions(procs[p].user)])
    /\ UNCHANGED sessionVars
    /\ UNCHANGED couponVars
    /\ UNCHANGED <<orders, enrollments, payments, carts, activeGateway, charges, now, sigFailed>>

\* the transaction's create and its commit
CreateSessionCommit(p) ==
    /\ procs[p].pc = "ss_commit"
    /\ sessions' = Append(Deactivate(sessions, procs[p].ords),
                          [userId |-> procs[p].user, isActive |-> TRUE])
    /\ Goto(p, [procs[p] EXCEPT !.pc = "ss_cache", !.ords = {}, !.pay = Len(sessions) + 1])
    /\ UNCHANGED cache
    /\ UNCHANGED couponVars
    /\ UNCHANGED <<orders, enrollments, payments, carts, activeGateway, charges, now, sigFailed>>

\* redis.set of the new session, and the return of its id
CreateSessionCache(p) ==
    /\ procs[p].pc = "ss_cache"
    /\ cache' = cache \cup {procs[p].pay}
    /\ Return(p, "SessionCreated")
    /\ UNCHANGED sessions
    /\ UNCHANGED couponVars
    /\ UNCHANGED <<orders, enrollments, payments, carts, activeGateway, charges, now, sigFailed>>

\* validateSession: redis.get; a hit answers true
ValidateSessionGet(p, sessionId) ==
    /\ AtRest(p)
    /\ IF sessionId \in cache
       THEN Return(p, "SessionValid")
       ELSE Goto(p, [Idle EXCEPT !.pc = "sv_find", !.pay = sessionId])
    /\ UNCHANGED sessionVars
    /\ UNCHANGED couponVars
    /\ UNCHANGED <<orders, enrollments, payments, carts, activeGateway, charges, now, sigFailed>>

\* the fallback: findFirst({id, isActive: true})
ValidateSessionFind(p) ==
    /\ procs[p].pc = "sv_find"
    /\ LET s == procs[p].pay
       IN  IF s \in DOMAIN sessions /\ sessions[s].isActive
           THEN Goto(p, [procs[p] EXCEPT !.pc = "sv_set"])
           ELSE Return(p, "SessionInvalid")
    /\ UNCHANGED sessionVars
    /\ UNCHANGED couponVars
    /\ UNCHANGED <<orders, enrollments, payments, carts, activeGateway, charges, now, sigFailed>>

\* redis.set of the session found, and the answer true
ValidateSessionSet(p) ==
    /\ procs[p].pc = "sv_set"
    /\ cache' = cache \cup {procs[p].pay}
    /\ Return(p, "SessionValid")
    /\ UNCHANGED sessions
    /\ UNCHANGED couponVars
    /\ UNCHANGED <<orders, enrollments, payments, carts, activeGateway, charges, now, sigFailed>>

\* invalidateSession: redis.del first
InvalidateSessionDel(p, sessionId) ==
    /\ AtRest(p)
    /\ cache' = cache \ {sessionId}
    /\ Goto(p, [Idle EXCEPT !.pc = "si_update", !.pay = sessionId])
    /\ UNCHANGED sessions
    /\ UNCHANGED couponVars
    /\ UNCHANGED <<orders, enrollments, payments, carts, activeGateway, charges, now, sigFailed>>

\* session.update({id}) to inactive; a missing row throws and is ignored
InvalidateSessionUpdate(p) ==
    /\ procs[p].pc = "si_update"
    /\ sessions' = Deactivate(sessions, {procs[p].pay})
    /\ Return(p, "SessionInvalidated")
    /\ UNCHANGED cache
    /\ UNCHANGED couponVars
    /\ UNCHANGED <<orders, enrollments, payments, carts, activeGateway, charges, now, sigFailed>>

\* invalidateAllSessions: findMany of the user's active sessions
InvalidateAllFind(p, u) ==
    /\ AtRest(p)
    /\ Goto(p, [Idle EXCEPT !.pc = "sa_del", !.user = u, !.ords = ActiveSessions(u)])
    /\ UNCHANGED sessionVars
    /\ UNCHANGED couponVars
    /\ UNCHANGED <<orders, enrollments, payments, carts, activeGateway, charges, now, sigFailed>>

\* redis.del of every session found
InvalidateAllDel(p) ==
    /\ procs[p].pc = "sa_del"
    /\ cache' = cache \ procs[p].ords
    /\ Goto(p, [procs[p] EXCEPT !.pc = "sa_update"])
    /\ UNCHANGED sessions
    /\ UNCHANGED couponVars
    /\ UNCHANGED <<orders, enrollments, payments, carts, activeGateway, charges, now, sigFailed>>

\* updateMany({userId}) to inactive
InvalidateAllUpdate(p) ==
    /\ procs[p].pc = "sa_update"
    /\ sessions' = Deactivate(sessions,
                              {s \in DOMAIN sessions : sessions[s].userId = procs[p].user})
    /\ Return(p, "AllSessionsInvalidated")
    /\ UNCHANGED cache
    /\ UNCHANGED couponVars
    /\ UNCHANGED <<orders, enrollments, payments, carts, activeGateway, charges, now, sigFailed>>

\* the sessions whose id a client holds: createSession has returned it
Issued ==
    {s \in DOMAIN sessions : \A p \in Procs : ~(procs[p].pc = "ss_cache" /\ procs[p].pay = s)}

-----------------------------------------------------------------------------
(* updatePaymentGatewaySettings(provider), and the clock *)

UpdatePaymentGatewaySettings(provider) ==
    /\ activeGateway' = provider
    /\ UNCHANGED couponVars
    /\ UNCHANGED sessionVars
    /\ UNCHANGED <<orders, enrollments, payments, carts, charges, now, procs, reply, sigFailed>>

Tick ==
    /\ now < MaxTicks * TickMs
    /\ now' = now + TickMs
    /\ UNCHANGED couponVars
    /\ UNCHANGED sessionVars
    /\ UNCHANGED <<orders, enrollments, payments, carts, activeGateway, charges, procs,
                   reply, sigFailed>>

-----------------------------------------------------------------------------
(* The system: any handler may take its next step, the admin may switch the  *)
(* gateway, time passes.                                                     *)

OrderIdSpace == 1..(MaxOrders + 1)

Next ==
    \/ \E p \in Procs, u \in Users, c \in RequestableCourses : BuyNowCheck(p, u, c)
    \/ \E p \in Procs : BuyNowPending(p)
    \/ \E p \in Procs : BuyNowCreate(p)
    \/ \E p \in Procs, gatewayOk \in BOOLEAN, writeOk \in BOOLEAN :
            BuyNowGateway(p, gatewayOk, writeOk)
    \/ \E p \in Procs, u \in Users : CartCheck(p, u)
    \/ \E p \in Procs : CartPending(p)
    \/ \E p \in Procs : CartCreate(p)
    \/ \E p \in Procs, gatewayOk \in BOOLEAN, writeOk \in BOOLEAN :
            CartGateway(p, gatewayOk, writeOk)
    \/ \E p \in Procs : \E pd \in VerifyPayloads : VerifyLookup(p, pd)
    \/ \E p \in Procs : VerifyFail(p)
    \/ \E p \in Procs : VerifyCommit(p)
    \/ \E p \in Procs, u \in Users, orderId \in OrderIdSpace : CancelLookup(p, u, orderId)
    \/ \E p \in Procs : CancelUpdate(p)
    \/ \E p \in Procs, u \in Users : \E pd \in CartVerifyPayloads : CartVerifyLookup(p, u, pd)
    \/ \E p \in Procs : CartVerifyFail(p)
    \/ \E p \in Procs : CartVerifyCommit(p)
    \/ \E p \in Procs, code \in CouponInputs, u \in Users, c \in CourseIds :
            \E orderAmount \in OrderAmounts : ValidateFind(p, code, u, c, orderAmount)
    \/ \E p \in Procs : ValidateCount(p)
    \/ \E p \in Procs, code \in CouponInputs, u \in Users, orderId \in OrderIdSpace :
            ConsumeFind(p, code, u, orderId)
    \/ \E p \in Procs : ConsumeUsage(p)
    \/ \E p \in Procs : ConsumeWrite(p)
    \/ \E p \in Procs : BuyNowPendingReadFails(p)
    \/ \E p \in Procs : CartPendingReadFails(p)
    \/ \E p \in Procs, u \in Users : CreateSessionFind(p, u)
    \/ \E p \in Procs : CreateSessionDel(p)
    \/ \E p \in Procs : CreateSessionUpdate(p)
    \/ \E p \in Procs : CreateSessionCommit(p)
    \/ \E p \in Procs : CreateSessionCache(p)
    \/ \E p \in Procs, sessionId \in Issued : ValidateSessionGet(p, sessionId)
    \/ \E p \in Procs : ValidateSessionFind(p)
    \/ \E p \in Procs : ValidateSessionSet(p)
    \/ \E p \in Procs, sessionId \in Issued : InvalidateSessionDel(p, sessionId)
    \/ \E p \in Procs : InvalidateSessionUpdate(p)
    \/ \E p \in Procs, u \in Users : InvalidateAllFind(p, u)
    \/ \E p \in Procs : InvalidateAllDel(p)
    \/ \E p \in Procs : InvalidateAllUpdate(p)
    \/ \E provider \in KnownProviders : UpdatePaymentGatewaySettings(provider)
    \/ Tick

Spec == Init /\ [][Next]_vars

-----------------------------------------------------------------------------
(* The order lifecycle: initiation, verification and cancellation by two    *)
(* users under the default gateway, with the clock standing still.           *)

\* what a client of the reference gateway can send: nothing, an id of no
\* order, or, for a charge, the gateway's receipt or a forged signature
ClientPayloads ==
    {EmptyPayload, RazorpayPayload(UnknownGatewayId, ForgedReceipt)}
    \cup UNION {{RazorpayPayload(g, r) : r \in {Receipt(g), ForgedReceipt}} :
                   g \in DOMAIN charges}

\* the same for the cart, naming no order ids or every order
ClientCartPayloads ==
    UNION {{[RazorpayPayload(g, r) EXCEPT !.orderIds = ids] :
                   ids \in {{}, DOMAIN orders}, r \in {Receipt(g), ForgedReceipt}} :
               g \in DOMAIN charges}

\* user 1 buys course 1 or checks out the cart; user 2 is a stranger
LifecycleNext ==
    \/ \E p \in Procs : BuyNowCheck(p, 1, 1)
    \/ \E p \in Procs : BuyNowPending(p)
    \/ \E p \in Procs : BuyNowCreate(p)
    \/ \E p \in Procs, gatewayOk \in BOOLEAN : BuyNowGateway(p, gatewayOk, TRUE)
    \/ \E p \in Procs : CartCheck(p, 1)
    \/ \E p \in Procs : CartPending(p)
    \/ \E p \in Procs : CartCreate(p)
    \/ \E p \in Procs, gatewayOk \in BOOLEAN : CartGateway(p, gatewayOk, TRUE)
    \/ \E p \in Procs : \E pd \in ClientPayloads : VerifyLookup(p, pd)
    \/ \E p \in Procs : VerifyFail(p)
    \/ \E p \in Procs : VerifyCommit(p)
    \/ \E p \in Procs, u \in Users, orderId \in OrderIdSpace : CancelLookup(p, u, orderId)
    \/ \E p \in Procs : CancelUpdate(p)
    \/ \E p \in Procs, u \in Users : \E pd \in ClientCartPayloads : CartVerifyLookup(p, u, pd)
    \/ \E p \in Procs : CartVerifyFail(p)
    \/ \E p \in Procs : CartVerifyCommit(p)

LifecycleSpec == Init /\ [][LifecycleNext]_vars

-----------------------------------------------------------------------------
(* Concurrent verification: a user starts a buy-now, and when it has been   *)
(* answered clients send the gateway's receipt for a charge, any number of  *)
(* times and together.                                                       *)

ValidPayloads == {RazorpayPayload(g, Receipt(g)) : g \in DOMAIN charges}

Initiating == \E p \in Procs : procs[p].pc \in {"bn_pending", "bn_create", "bn_gateway"}

Verifying == \E p \in Procs : procs[p].pc \in {"vp_commit", "vp_fail"}

RaceNext ==
    \/ ~Verifying /\ \E u \in Users : BuyNowCheck(1, u, 1)
    \/ BuyNowPending(1)
    \/ BuyNowCreate(1)
    \/ \E gatewayOk \in BOOLEAN : BuyNowGateway(1, gatewayOk, TRUE)
    \/ ~Initiating /\ \E p \in Procs : \E pd \in ValidPayloads : VerifyLookup(p, pd)
    \/ \E p \in Procs : VerifyCommit(p)

RaceSpec == Init /\ [][RaceNext]_vars

(* The same with cancellations by the owner or a stranger *)

CancelRaceNext ==
    \/ RaceNext
    \/ \E p \in Procs, u \in Users, orderId \in OrderIdSpace : CancelLookup(p, u, orderId)
    \/ \E p \in Procs : CancelUpdate(p)

CancelRaceSpec == Init /\ [][CancelRaceNext]_vars

-----------------------------------------------------------------------------
(* Initiation with a gateway and a database that can fail, and cancellation *)

InitiateNext ==
    \/ \E p \in Procs : BuyNowCheck(p, 1, 1)
    \/ \E p \in Procs : BuyNowPending(p)
    \/ \E p \in Procs : BuyNowCreate(p)
    \/ \E p \in Procs, gatewayOk \in BOOLEAN, writeOk \in BOOLEAN :
            BuyNowGateway(p, gatewayOk, writeOk)
    \/ \E p \in Procs : CartCheck(p, 1)
    \/ \E p \in Procs : CartPending(p)
    \/ \E p \in Procs : CartCreate(p)
    \/ \E p \in Procs, gatewayOk \in BOOLEAN, writeOk \in BOOLEAN :
            CartGateway(p, gatewayOk, writeOk)
    \/ \E p \in Procs, u \in Users, orderId \in OrderIdSpace : CancelLookup(p, u, orderId)
    \/ \E p \in Procs : CancelUpdate(p)
    \/ \E provider \in KnownProviders : UpdatePaymentGatewaySettings(provider)

InitiateSpec == Init /\ [][InitiateNext]_vars

-----------------------------------------------------------------------------
(* Retrying a purchase as time passes *)

RetryNext ==
    \/ \E p \in Procs : BuyNowCheck(p, 1, 1)
    \/ \E p \in Procs : BuyNowPending(p)
    \/ \E p \in Procs : BuyNowCreate(p)
    \/ \E p \in Procs, gatewayOk \in BOOLEAN : BuyNowGateway(p, gatewayOk, TRUE)
    \/ Tick

RetrySpec == Init /\ [][RetryNext]_vars

-----------------------------------------------------------------------------
(* Switching the gateway between initiation and verification.  The client    *)
(* names the orders of the checkout it pays for, or none.                    *)

CheckoutOf(g) == {i \in DOMAIN orders : orders[i].anchor = charges[g].ref}

CheckoutPayloads ==
    UNION {{[RazorpayPayload(g, r) EXCEPT !.orderIds = ids] :
                   ids \in {{}, CheckoutOf(g)}, r \in {Receipt(g), ForgedReceipt}} :
               g \in DOMAIN charges}

ProviderNext ==
    \/ \E p \in Procs : BuyNowCheck(p, 1, 1)
    \/ \E p \in Procs : BuyNowPending(p)
    \/ \E p \in Procs : BuyNowCreate(p)
    \/ \E p \in Procs : BuyNowGateway(p, TRUE, TRUE)
    \/ \E p \in Procs : CartCheck(p, 1)
    \/ \E p \in Procs : CartPending(p)
    \/ \E p \in Procs : CartCreate(p)
    \/ \E p \in Procs : CartGateway(p, TRUE, TRUE)
    \/ \E p \in Procs : \E pd \in ClientPayloads : VerifyLookup(p, pd)
    \/ \E p \in Procs : VerifyFail(p)
    \/ \E p \in Procs : VerifyCommit(p)
    \/ \E p \in Procs : \E pd \in CheckoutPayloads : CartVerifyLookup(p, 1, pd)
    \/ \E p \in Procs : CartVerifyFail(p)
    \/ \E p \in Procs : CartVerifyCommit(p)
    \/ \E provider \in {"RAZORPAY", "PHONEPE"} : UpdatePaymentGatewaySettings(provider)

ProviderSpec == Init /\ [][ProviderNext]_vars

-----------------------------------------------------------------------------
(* Counting rows *)

\* the number of Payment rows of order i in a Payment table
PaymentCountIn(table, i) ==
    LET RECURSIVE Count(_)
        Count(S) == IF S = {} THEN 0
                    ELSE LET r == CHOOSE x \in S : TRUE
                         IN  CopiesIn(r, table) + Count(S \ {r})
    IN  Count({r \in BagToSet(table) : r.orderId = i})

PaymentCount(i) == PaymentCountIn(payments, i)

-----------------------------------------------------------------------------
(* Order status transitions *)

\* C1: once an order is COMPLETED or FAILED no step changes its status again.
\* The code breaks it: a status write keyed by the order id alone lands on an
\* order another handler has finished meanwhile, and verifyCartPayment never
\* refuses a FAILED order.
TerminalStatusIsFinal ==
    [][\A i \in DOMAIN orders :
          orders[i].status # "PENDING" => orders'[i].status = orders[i].status]_vars

-----------------------------------------------------------------------------
(* Repeated verification *)

\* the orders a verifyPaymentSignature payload pd is about
TargetOf(pd) == IF LookupId(pd) = 0 THEN {} ELSE OrderByGatewayId(LookupId(pd))

\* a verification of pd completed order i: its Payment row carries pd's payment id
CompletedBy(i, pd) ==
    /\ orders[i].status = "COMPLETED"
    /\ \E r \in PaymentsOf(i) : r.gatewayPaymentId = pd.razorpay_payment_id

\* C2: a verifyPaymentSignature call with a payload that already completed
\* its order returns success at once and leaves orders, enrollments and
\* payments as they were.
SecondVerifyIsNoOp ==
    [][\A p \in Procs : \A pd \in ClientPayloads :
          (VerifyLookup(p, pd) /\ \E i \in TargetOf(pd) : CompletedBy(i, pd))
          => /\ reply' = "PaymentAlreadyProcessed"
             /\ reply' \in Successes
             /\ AtRest(p)'
             /\ UNCHANGED <<orders, enrollments, payments>>]_vars

SecondVerifyAnswered ==
    /\ reply = "PaymentAlreadyProcessed"
    /\ \E i \in DOMAIN orders : \E g \in DOMAIN charges :
          /\ orders[i].gatewayOrderId = g
          /\ CompletedBy(i, RazorpayPayload(g, Receipt(g)))

-----------------------------------------------------------------------------
(* A failed signature check *)

\* C4: after verifyPaymentSignature marked an order FAILED for an invalid
\* signature, no Enrollment or Payment exists for it, it stays FAILED, and a
\* verifyPaymentSignature call that starts afterwards is rejected and changes
\* nothing.  The code breaks it: a verification that passed its status check
\* earlier, or verifyCartPayment, completes the order afterwards.
SignatureFailureIsFinal ==
    /\ [](\A i \in sigFailed : /\ orders[i].status = "FAILED"
                               /\ PaymentsOf(i) = {})
    /\ [][\A p \in Procs : \A pd \in ClientPayloads :
             (VerifyLookup(p, pd) /\ TargetOf(pd) \cap sigFailed # {})
             => /\ reply' \in ValidationErrors
                /\ AtRest(p)'
                /\ UNCHANGED <<orders, enrollments, payments>>]_vars

-----------------------------------------------------------------------------
(* Cancellation against verification *)

\* C5: a cancel that finishes after the order was completed does not turn it
\* FAILED, and a verification that finishes after the cancel does not
\* complete the FAILED order.  The code breaks both: neither write looks at
\* the status again.
CancelAndVerifyTolerateEachOther ==
    [][\A p \in Procs :
          /\ CancelUpdate(p) =>
                \A i \in procs[p].ords :
                    orders[i].status = "COMPLETED" => orders'[i].status = "COMPLETED"
          /\ VerifyCommit(p) =>
                \A i \in procs[p].ords :
                    orders[i].status = "FAILED" => orders'[i].status = "FAILED"]_vars

-----------------------------------------------------------------------------
(* The frame of cancelOrder *)

Owned(u, orderId) == orderId \in DOMAIN orders /\ orders[orderId].userId = u

\* C9: cancelOrder for an order that is missing, of another user, COMPLETED
\* or FAILED returns success and changes no order, enrollment or payment;
\* for the caller's PENDING order it sets that order, and no other, to FAILED.
CancelFrame ==
    /\ [](\A p \in Procs : procs[p].pc = "co_update" =>
            \E i \in DOMAIN orders : procs[p].ords = {i} /\ Owned(procs[p].user, i))
    /\ [][\A p \in Procs :
             /\ \A u \in Users, i \in OrderIdSpace :
                   CancelLookup(p, u, i) =>
                      /\ UNCHANGED <<orders, enrollments, payments>>
                      /\ IF Owned(u, i) /\ orders[i].status = "PENDING"
                         THEN procs'[p].pc = "co_update" /\ procs'[p].ords = {i}
                         ELSE AtRest(p)' /\ reply' = "OrderAlreadyProcessed"
                                         /\ reply' \in Successes
             /\ CancelUpdate(p) =>
                   /\ \A i \in DOMAIN orders :
                         orders'[i] = IF i \in procs[p].ords
                                      THEN [orders[i] EXCEPT !.status = "FAILED"]
                                      ELSE orders[i]
                   /\ DOMAIN orders' = DOMAIN orders
                   /\ reply' \in Successes
                   /\ UNCHANGED <<enrollments, payments>>]_vars

\* the owner's cancel went through
CancelWentThrough ==
    /\ reply = "OrderCancelled"
    /\ \E i \in DOMAIN orders : orders[i].status = "FAILED"

-----------------------------------------------------------------------------
(* Payments and completed orders *)

\* C10: every Payment row belongs to a COMPLETED order, and every COMPLETED
\* order has exactly one Payment row and the Enrollment of its user and
\* course.  The code breaks it: a cancel that found the order PENDING marks
\* it FAILED after the verification has completed and paid it.
PaymentsMatchCompletedOrders ==
    /\ \A r \in BagToSet(payments) :
          r.orderId \in DOMAIN orders /\ orders[r.orderId].status = "COMPLETED"
    /\ \A i \in DOMAIN orders :
          orders[i].status = "COMPLETED" =>
             /\ PaymentCount(i) = 1
             /\ CopiesIn(<<orders[i].userId, orders[i].courseId>>, enrollments) = 1

-----------------------------------------------------------------------------
(* Two verifications of one payment *)

-----------------------------------------------------------------------------
(* Gateway failures during initiation *)

\* an initiation that created order i has not returned yet
InFlight(i) ==
    \E p \in Procs : procs[p].pc \in {"bn_gateway", "cc_gateway"} /\ i \in procs[p].ords

\* the checkout order i stems from holds the id of a gateway charge made for it
Charged(i) ==
    LET first == orders[i].anchor
        g == orders[first].gatewayOrderId
    IN  g \in DOMAIN charges /\ charges[g].ref = first

\* C6: when createOrder or the write of the gateway order id fails, the
\* initiation answers with the error only after every order it created is
\* FAILED; an order left PENDING by an initiation that has returned has a
\* gateway charge (a buy-now order holds the charge's id itself).
GatewayFailureFailsOrders ==
    /\ [](\A i \in DOMAIN orders :
             (orders[i].status = "PENDING" /\ ~InFlight(i)) => Charged(i))
    /\ [][\A p \in Procs : \A gatewayOk, writeOk \in BOOLEAN :
             (BuyNowGateway(p, gatewayOk, writeOk) \/ CartGateway(p, gatewayOk, writeOk))
             => /\ AtRest(p)'
                /\ IF gatewayOk /\ writeOk /\ AdapterImplemented(procs[p].provider)
                   THEN reply' = "Initiated"
                   ELSE /\ reply' \in InternalErrors \cup NotImplementedErrors
                        /\ \A i \in procs[p].ords : orders'[i].status = "FAILED"]_vars

\* a checkout failed at the gateway and left its orders FAILED
CheckoutFailedAtGateway ==
    /\ reply \in InternalErrors
    /\ \E i, j \in DOMAIN orders :
          /\ i # j
          /\ orders[i].anchor = orders[j].anchor
          /\ orders[i].status = "FAILED" /\ orders[j].status = "FAILED"
          /\ orders[i].gatewayOrderId = 0

-----------------------------------------------------------------------------
(* The retry window *)

\* C7: a buy-now whose newest PENDING order for the user and course is
\* younger than 60 seconds is answered with the wait error and creates no
\* order and no charge; when that order is older than 60 seconds the call
\* goes on and adds a PENDING order, leaving every older order as it was.
RetryWindow ==
    [][\A p \in Procs :
          /\ BuyNowPending(p) =>
                LET newest == NewestPending(procs[p].user, procs[p].crs[1])
                IN  /\ (\E i \in newest : now - orders[i].createdAt < 60 * 1000)
                       => /\ AtRest(p)' /\ reply' = "WaitRetry"
                          /\ reply' \in ValidationErrors
                          /\ UNCHANGED <<orders, charges>>
                    /\ (newest # {} /\ \A i \in newest : now - orders[i].createdAt > 60 * 1000)
                       => procs'[p].pc = "bn_create"
          /\ BuyNowCreate(p) =>
                /\ Len(orders') = Len(orders) + 1
                /\ orders'[Len(orders')].status = "PENDING"
                /\ \A i \in DOMAIN orders : orders'[i] = orders[i]]_vars

\* the retry after the window: two PENDING orders of one user and course,
\* each with its own charge
SecondOrderAfterWindow ==
    /\ reply = "Initiated"
    /\ \E i, j \in DOMAIN orders :
          /\ orders[i].userId = orders[j].userId
          /\ orders[i].courseId = orders[j].courseId
          /\ orders[j].createdAt - orders[i].createdAt > 60 * 1000
          /\ orders[i].status = "PENDING" /\ orders[j].status = "PENDING"
          /\ orders[i].gatewayOrderId # 0 /\ orders[j].gatewayOrderId # 0

-----------------------------------------------------------------------------
(* The adapter of a verification *)

-----------------------------------------------------------------------------
(* Payloads of every shape: a user buys courses one after the other, and    *)
(* clients send payloads in the field names of any provider.                 *)

SpoofNext ==
    \/ \E c \in {1, 2} : BuyNowCheck(1, 1, c)
    \/ BuyNowPending(1)
    \/ BuyNowCreate(1)
    \/ BuyNowGateway(1, TRUE, TRUE)
    \/ \E p \in Procs : \E pd \in VerifyPayloads : VerifyLookup(p, pd)
    \/ \E p \in Procs : VerifyFail(p)
    \/ \E p \in Procs : VerifyCommit(p)

SpoofSpec == Init /\ [][SpoofNext]_vars

\* C11: when verifyPaymentSignature accepts a signature and goes on to
\* complete an order, the gateway order id the adapter validated the
\* signature over is the gateway order id of that order.  The code breaks
\* it: the lookup prefers transactionId to orderId, the verification prefers
\* orderId, so a payload naming two charges completes one order with the
\* receipt of the other.
SignatureCoversCompletedOrder ==
    [][\A p \in Procs : \A pd \in VerifyPayloads :
          (VerifyLookup(p, pd) /\ procs'[p].pc = "vp_commit")
          => \A i \in procs'[p].ords : orders[i].gatewayOrderId = VerifyOrderId(pd)]_vars

-----------------------------------------------------------------------------
(* Paying for a cart: user 1 checks the cart out, and clients send the      *)
(* gateway's receipt or a forged one, naming every order or none.            *)

CartPayNext ==
    \/ CartCheck(1, 1)
    \/ CartPending(1)
    \/ CartCreate(1)
    \/ \E gatewayOk \in BOOLEAN : CartGateway(1, gatewayOk, TRUE)
    \/ \E p \in Procs, u \in Users : \E pd \in ClientCartPayloads : CartVerifyLookup(p, u, pd)
    \/ \E p \in Procs : CartVerifyFail(p)
    \/ \E p \in Procs : CartVerifyCommit(p)

CartPaySpec == Init /\ [][CartPayNext]_vars

\* the orders created by the checkout that created order i
Siblings(i) == {j \in DOMAIN orders : orders[j].anchor = orders[i].anchor}

\* C12: a verifyCartPayment that completes orders of a checkout and answers
\* success completes every PENDING order of that checkout, each with its
\* Enrollment and one Payment row, and leaves the user's cart empty.  The
\* code breaks it: only the first order holds the gateway order id, and the
\* other orders are found only through the orderIds the client sends.
CartVerifyCompletesCheckout ==
    [][\A p \in Procs :
          (CartVerifyCommit(p) /\ reply' = "Verified")
          => /\ carts'[procs[p].user] = <<>>
             /\ \A i \in procs[p].ords : \A j \in Siblings(i) :
                   orders[j].status = "PENDING"
                   => /\ orders'[j].status = "COMPLETED"
                      /\ CopiesIn(<<orders[j].userId, orders[j].courseId>>, enrollments') = 1
                      /\ PaymentCountIn(payments', j) = 1]_vars

-----------------------------------------------------------------------------
(* The shape of a cart checkout *)

\* C13: initiateCartCheckout creates one PENDING order per course of the
\* cart, in the cart's order, each with its course's price and the same
\* provider and without gateway order id; when the gateway accepts, it
\* makes exactly one charge, whose amount is the sum of the prices, and
\* stores the charge's id on the first order only.
CartCheckoutShape ==
    [][\A p \in Procs :
          /\ CartCreate(p)
             => LET cs == carts[procs[p].user]
                    n == Len(orders)
                IN  /\ Len(orders') = n + Len(cs)
                    /\ \A k \in 1..n : orders'[k] = orders[k]
                    /\ \A k \in 1..Len(cs) :
                          /\ orders'[n + k].userId = procs[p].user
                          /\ orders'[n + k].courseId = cs[k]
                          /\ orders'[n + k].amount = CoursePrice(cs[k])
                          /\ orders'[n + k].status = "PENDING"
                          /\ orders'[n + k].provider = orders'[n + 1].provider
                          /\ orders'[n + k].gatewayOrderId = 0
          /\ (\E gatewayOk, writeOk \in BOOLEAN : CartGateway(p, gatewayOk, writeOk))
             /\ reply' = "Initiated"
             => LET ids == procs[p].ords
                    g == Len(charges')
                IN  /\ Len(charges') = Len(charges) + 1
                    /\ charges'[g].amount = SumPrices(carts[procs[p].user])
                    /\ charges'[g].provider = orders[Min(ids)].provider
                    /\ \A i \in ids :
                          /\ orders'[i].status = orders[i].status
                          /\ orders'[i].gatewayOrderId = IF i = Min(ids) THEN g ELSE 0]_vars

\* a checkout of two courses went through: two PENDING orders, one charge
\* for both prices, its id on the first order alone
CheckoutOfTwoInitiated ==
    /\ reply = "Initiated"
    /\ \E i, j \in DOMAIN orders :
          /\ i < j
          /\ orders[j].anchor = i
          /\ orders[i].status = "PENDING" /\ orders[j].status = "PENDING"
          /\ orders[i].gatewayOrderId \in DOMAIN charges
          /\ charges[orders[i].gatewayOrderId].amount = orders[i].amount + orders[j].amount
          /\ orders[j].gatewayOrderId = 0

-----------------------------------------------------------------------------
(* Consuming a coupon: the coupon of the worked example, 20 percent capped  *)
(* at 50.00, consumed and validated by concurrent calls, the feature flag   *)
(* on or off.                                                                *)

StandardCoupon ==
    [id |-> 1, isActive |-> TRUE, validFrom |-> 0, validTill |-> Null,
     totalUsageLimit |-> Null, perUserLimit |-> 1, minOrderAmount |-> Null,
     discountType |-> "PERCENTAGE", discountValue |-> 20, maxDiscountAmount |-> 50000,
     usedCount |-> 0]

ConsumeInit ==
    /\ OrdersInit
    /\ reply = NoResult
    /\ coupons = [code \in {"SAVE20"} |-> StandardCoupon]
    /\ couponUsages = <<>>
    /\ couponSystemEnabled \in BOOLEAN
    /\ validFor = {}

ConsumeNext ==
    \/ \E p \in Procs, code \in CouponInputs, u \in Users, orderId \in 1..MaxOrders :
            ConsumeFind(p, code, u, orderId)
    \/ \E p \in Procs : ConsumeUsage(p)
    \/ \E p \in Procs : ConsumeWrite(p)
    \/ \E p \in Procs, code \in CouponInputs, u \in Users :
            ValidateFind(p, code, u, 1, 499000)
    \/ \E p \in Procs : ValidateCount(p)

ConsumeSpec == ConsumeInit /\ [][ConsumeNext]_vars

\* rows of a CouponUsage table that hold the order id
RowsFor(table, orderId) ==
    Cardinality({k \in DOMAIN table : table[k].orderId = orderId})

\* order ids that hold a row of CouponUsage for the coupon
ConsumedOrders(couponId) ==
    {couponUsages[k].orderId : k \in {j \in DOMAIN couponUsages :
                                         couponUsages[j].couponId = couponId}}

\* usedCount counts the order ids consumed, and no order id holds two rows
UsedCountCountsOrders ==
    /\ \A code \in DOMAIN coupons :
          coupons[code].usedCount = Cardinality(ConsumedOrders(coupons[code].id))
    /\ \A k \in DOMAIN couponUsages : RowsFor(couponUsages, couponUsages[k].orderId) = 1

\* a consumeCoupon call for an existing coupon returns with exactly one row
\* of CouponUsage for its order id
ConsumeLeavesOneRow ==
    \A p \in Procs :
       /\ \A code \in CouponInputs, u \in Users, orderId \in 1..MaxOrders :
             /\ ConsumeFind(p, code, u, orderId)
             /\ NormalizeCode(code) \in DOMAIN coupons
             /\ AtRest(p)'
             => RowsFor(couponUsages', orderId) = 1
       /\ (ConsumeUsage(p) \/ ConsumeWrite(p)) /\ AtRest(p)'
             => RowsFor(couponUsages', procs[p].orderId) = 1

\* C14 as stated: any consumeCoupon calls for one order id, sequential or
\* concurrent, raise the coupon's usedCount by exactly 1 and leave exactly
\* one CouponUsage row for the order id; k order ids raise it by k.
ConsumedOncePerOrderAlways ==
    /\ [](UsedCountCountsOrders)
    /\ [][ConsumeLeavesOneRow]_vars

\* C14, amended: the same while the coupon system is enabled; with the
\* feature flag off a call consumes nothing.
ConsumedOncePerOrder ==
    /\ [](UsedCountCountsOrders)
    /\ [][couponSystemEnabled => ConsumeLeavesOneRow]_vars

\* two concurrent calls for one order id: the second write was refused and
\* rolled back, and the coupon was used once
ConcurrentConsumeRefused ==
    /\ couponSystemEnabled
    /\ reply = ConsumeResult(FALSE)
    /\ Len(couponUsages) = 1
    /\ coupons["SAVE20"].usedCount = 1

-----------------------------------------------------------------------------
(* The rules of a coupon: every combination of active flag, validity window, *)
(* usage caps and minimum order amount, validated while the coupon is being  *)
(* consumed and time passes.                                                 *)

RuleCoupons ==
    {[StandardCoupon EXCEPT !.isActive = a, !.validFrom = f, !.validTill = t,
                            !.totalUsageLimit = l, !.perUserLimit = pl,
                            !.minOrderAmount = m] :
        a \in BOOLEAN, f \in {0, 45000}, t \in {Null, 15000}, l \in {Null, 1},
        pl \in {1, 2}, m \in {Null, 200000}}

RulesInit ==
    /\ OrdersInit
    /\ reply = NoResult
    /\ \E coupon \in RuleCoupons : coupons = [code \in {"SAVE20"} |-> coupon]
    /\ couponUsages = <<>>
    /\ couponSystemEnabled \in BOOLEAN
    /\ validFor = {}

\* amounts below and above the minimum order amount
RuleAmounts == {100000, 499000}

RulesNext ==
    \/ \E code \in CouponInputs, u \in Users, orderAmount \in RuleAmounts :
            ValidateFind(1, code, u, 1, orderAmount)
    \/ ValidateCount(1)
    \/ \E orderId \in 1..MaxOrders : ConsumeFind(2, "SAVE20", 1, orderId)
    \/ ConsumeUsage(2)
    \/ ConsumeWrite(2)
    \/ Tick

RulesSpec == RulesInit /\ [][RulesNext]_vars

\* the reasons of the seven checks, in the order of the specification
RuleReasons ==
    <<"NOT_FOUND", "INACTIVE", "NOT_STARTED", "EXPIRED", "LIMIT_EXCEEDED",
      "USER_LIMIT_EXCEEDED", "MIN_ORDER_NOT_MET">>

\* check k fails for the coupon row read, the user's usage count read, the
\* order amount and the time read
RuleFails(k, found, coupon, userUsageCount, orderAmount, at) ==
    CASE k = 1 -> ~found
      [] k = 2 -> found /\ ~coupon.isActive
      [] k = 3 -> found /\ coupon.validFrom > at
      [] k = 4 -> found /\ coupon.validTill # Null /\ coupon.validTill < at
      [] k = 5 -> found /\ coupon.totalUsageLimit # Null
                        /\ coupon.usedCount >= coupon.totalUsageLimit
      [] k = 6 -> found /\ userUsageCount >= coupon.perUserLimit
      [] k = 7 -> found /\ coupon.minOrderAmount # Null
                        /\ orderAmount < coupon.minOrderAmount

\* the first failing check, 0 when none fails
FirstFailing(found, coupon, userUsageCount, orderAmount, at) ==
    LET failing == {k \in 1..7 : RuleFails(k, found, coupon, userUsageCount, orderAmount, at)}
    IN  IF failing = {} THEN 0 ELSE Min(failing)

\* C15: validateCoupon answers with the reason of the first failing check
\* in the order existence, active flag, start date, end date, global cap,
\* per-user cap, minimum order amount, and answers valid exactly when no
\* check fails and the feature flag is on.  The first five checks are made
\* on the coupon row and the time read, the last two on the usage count
\* read after them.
ChecksInFixedOrder ==
    [][/\ \A code \in CouponInputs, u \in Users, orderAmount \in RuleAmounts :
             ValidateFind(1, code, u, 1, orderAmount)
             => LET normalizedCode == NormalizeCode(code)
                    found == normalizedCode \in DOMAIN coupons
                    coupon == IF found THEN coupons[normalizedCode] ELSE StandardCoupon
                    first == FirstFailing(found, coupon,
                                          UserUsageCount(coupon.id, u), orderAmount, now)
                IN  IF ~couponSystemEnabled
                    THEN AtRest(1)' /\ reply' = InvalidResult("DISABLED")
                    ELSE IF first \in 1..5
                    THEN AtRest(1)' /\ reply' = InvalidResult(RuleReasons[first])
                    ELSE ~AtRest(1)' /\ reply' = reply
       /\ ValidateCount(1)
             => LET first == FirstFailing(TRUE, procs[1].coupon,
                                          UserUsageCount(procs[1].coupon.id, procs[1].user),
                                          procs[1].amount, procs[1].at)
                IN  /\ AtRest(1)'
                    /\ reply'.valid = (first = 0)
                    /\ first # 0 => reply' = InvalidResult(RuleReasons[first])]_vars

\* an inactive coupon that is expired and used up as well is answered as
\* inactive
InactiveReportedFirst ==
    /\ reply = InvalidResult("INACTIVE")
    /\ LET coupon == coupons["SAVE20"]
       IN  /\ ~coupon.isActive
           /\ coupon.validTill # Null /\ coupon.validTill < now
           /\ coupon.totalUsageLimit # Null /\ coupon.usedCount >= coupon.totalUsageLimit

-----------------------------------------------------------------------------
(* The discount: coupons of both types, with and without cap, validated for *)
(* the amounts clients send.                                                 *)

\* 20, 100 and 150 percent; 20.00 and 600.00 rupees; no cap or 50.00 rupees
DiscountCoupons ==
    {[StandardCoupon EXCEPT !.discountValue = v, !.maxDiscountAmount = cap] :
        v \in {20, 100, 150}, cap \in {Null, 50000}}
    \cup {[StandardCoupon EXCEPT !.discountType = "FIXED", !.discountValue = v,
                                 !.maxDiscountAmount = cap] :
             v \in {20000, 600000}, cap \in {Null, 50000}}

DiscountInit ==
    /\ OrdersInit
    /\ reply = NoResult
    /\ \E coupon \in DiscountCoupons : coupons = [code \in {"SAVE20"} |-> coupon]
    /\ couponUsages = <<>>
    /\ couponSystemEnabled = TRUE
    /\ validFor = {}

DiscountNext ==
    \/ \E p \in Procs, code \in CouponInputs, u \in Users, orderAmount \in OrderAmounts :
            ValidateFind(p, code, u, 1, orderAmount)
    \/ \E p \in Procs : ValidateCount(p)

DiscountSpec == DiscountInit /\ [][DiscountNext]_vars

\* C16: every valid result of validateCoupon has discountAmount <=
\* orderAmount, and finalAmount = orderAmount - discountAmount rounded to 2
\* decimals.  The code clamps the discount to the order amount before it
\* rounds it, and the rounding can lift it above an amount that carries a
\* fraction of a paisa.
DiscountWithinOrderAmount ==
    [][\A p \in Procs :
          (ValidateCount(p) /\ reply'.valid)
          => /\ reply'.discountAmount <= procs[p].amount
             /\ reply'.finalAmount
                   = RoundToPaise((procs[p].amount - reply'.discountAmount) * 100)]_vars

\* the multiple of a paisa nearest to x hundred-thousandths, a half going up
NearestPaise(x) ==
    CHOOSE r \in {10 * k : k \in ((x \div 1000) - 1)..((x \div 1000) + 1)} :
        r * 100 - 500 <= x /\ x < r * 100 + 500

\* the reference formula of the discount
ReferenceDiscount(coupon, orderAmount) ==
    LET base == CASE coupon.discountType = "FIXED" -> coupon.discountValue * 100
                  [] coupon.discountType = "PERCENTAGE" /\ coupon.maxDiscountAmount = Null
                        -> orderAmount * coupon.discountValue
                  [] OTHER -> IF orderAmount * coupon.discountValue
                                    > coupon.maxDiscountAmount * 100
                              THEN coupon.maxDiscountAmount * 100
                              ELSE orderAmount * coupon.discountValue
        clamped == IF base > orderAmount * 100 THEN orderAmount * 100 ELSE base
    IN  NearestPaise(clamped)

\* C17: the discount of a valid result is the reference formula's: for
\* PERCENTAGE amount * value / 100, capped by maxDiscountAmount when one is
\* set, for FIXED the raw value, clamped to the order amount and rounded to
\* 2 decimals.
DiscountIsReferenceFormula ==
    [][\A p \in Procs :
          (ValidateCount(p) /\ reply'.valid)
          => reply'.discountAmount = ReferenceDiscount(procs[p].coupon, procs[p].amount)]_vars

\* the worked example: 499.00 with 20 percent capped at 50.00 gives the
\* discount 50.00 and the final amount 449.00
CappedExampleValidated ==
    /\ coupons["SAVE20"].discountType = "PERCENTAGE"
    /\ coupons["SAVE20"].discountValue = 20
    /\ coupons["SAVE20"].maxDiscountAmount = 50000
    /\ reply = ValidResult(50000, 449000)

-----------------------------------------------------------------------------
(* Validation reads, consumption writes *)

\* the reasons validateCoupon gives for a failed check
FailureReasons ==
    {"DISABLED", "NOT_FOUND", "INACTIVE", "NOT_STARTED", "EXPIRED", "LIMIT_EXCEEDED",
     "USER_LIMIT_EXCEEDED", "MIN_ORDER_NOT_MET"}

\* C18: no step of validateCoupon changes a coupon's usedCount or the
\* CouponUsage rows, whatever its input and outcome; it answers a failed
\* check with a result {valid: false, reason} instead of an error; the
\* tables change only in the write of consumeCoupon.
ValidationNeverConsumes ==
    [][/\ \A p \in Procs :
             \/ \E code \in CouponInputs, u \in Users : ValidateFind(p, code, u, 1, 499000)
             \/ ValidateCount(p)
             => /\ coupons' = coupons
                /\ couponUsages' = couponUsages
                /\ AtRest(p)' => /\ reply'.kind = "validate"
                                 /\ reply'.valid \/ reply'.reason \in FailureReasons
       /\ (coupons' # coupons \/ couponUsages' # couponUsages)
             => \E p \in Procs : ConsumeWrite(p)]_vars

\* a validation refused a user who had consumed the coupon, and left the
\* single usage row and the count as they were
RefusedAfterConsumption ==
    /\ reply = InvalidResult("USER_LIMIT_EXCEEDED")
    /\ Len(couponUsages) = 1
    /\ coupons["SAVE20"].usedCount = 1

-----------------------------------------------------------------------------
(* Unimplemented providers: user 1 buys course 1 while the admin switches    *)
(* between the three providers; clients verify and cancel.                   *)

UnimplementedNext ==
    \/ \E p \in Procs : BuyNowCheck(p, 1, 1)
    \/ \E p \in Procs : BuyNowPending(p)
    \/ \E p \in Procs : BuyNowCreate(p)
    \/ \E p \in Procs : BuyNowGateway(p, TRUE, TRUE)
    \/ \E p \in Procs : \E pd \in ClientPayloads : VerifyLookup(p, pd)
    \/ \E p \in Procs : VerifyFail(p)
    \/ \E p \in Procs : VerifyCommit(p)
    \/ \E p \in Procs, orderId \in OrderIdSpace : CancelLookup(p, 1, orderId)
    \/ \E p \in Procs : CancelUpdate(p)
    \/ \E provider \in KnownProviders : UpdatePaymentGatewaySettings(provider)

UnimplementedSpec == Init /\ [][UnimplementedNext]_vars

UnimplementedProviders == {"PHONEPE", "CASHFREE"}

-----------------------------------------------------------------------------
(* The reference adapter's verdict *)

\* a receipt of the gateway with its payment id replaced
TamperedPayload(g) ==
    [RazorpayPayload(g, Receipt(g)) EXCEPT !.razorpay_payment_id = MaxOrders + 1]

AdapterPayloads == VerifyPayloads \cup {TamperedPayload(g) : g \in DOMAIN charges}

AdapterNext ==
    \/ \E c \in {1, 2} : BuyNowCheck(1, 1, c)
    \/ BuyNowPending(1)
    \/ BuyNowCreate(1)
    \/ BuyNowGateway(1, TRUE, TRUE)
    \/ \E p \in Procs : \E pd \in AdapterPayloads : VerifyLookup(p, pd)
    \/ \E p \in Procs : VerifyFail(p)
    \/ \E p \in Procs : VerifyCommit(p)

AdapterSpec == Init /\ [][AdapterNext]_vars

\* C20: the reference adapter answers isValid = true exactly when the
\* signature sent equals the HMAC of gatewayOrderId + "|" + gatewayPaymentId;
\* for every other signature it answers isValid = false as a result: the
\* calling verification goes on to its invalid-signature branch and nothing
\* is thrown from the adapter.
SignatureDecidesVerdict ==
    [][\A p \in Procs : \A pd \in AdapterPayloads :
          (VerifyLookup(p, pd) /\ ~AtRest(p)')
          => LET sent == OrSig(pd.razorpay_signature, OrSig(pd.signature, pd.checksum))
                 gatewayPaymentId == Or(pd.razorpay_payment_id,
                                        Or(pd.transactionId, pd.paymentId))
                 expected == Hmac(VerifyOrderId(pd), gatewayPaymentId)
             IN  /\ procs'[p].pc = IF sent = expected THEN "vp_commit" ELSE "vp_fail"
                 /\ procs'[p].pay = gatewayPaymentId
                 /\ reply' = reply]_vars

\* one verification holds a valid verdict and another an invalid one
BothVerdictsReturned ==
    \E p, q \in Procs : procs[p].pc = "vp_commit" /\ procs[q].pc = "vp_fail"

-----------------------------------------------------------------------------
(* The provider selector: purchases while the setting is absent, set by the *)
(* admin, or unreadable.                                                     *)

SelectorNext ==
    \/ \E p \in Procs : BuyNowCheck(p, 1, 1)
    \/ \E p \in Procs : BuyNowPending(p)
    \/ \E p \in Procs : BuyNowPendingReadFails(p)
    \/ \E p \in Procs : BuyNowCreate(p)
    \/ \E p \in Procs : BuyNowGateway(p, TRUE, TRUE)
    \/ \E p \in Procs : CartCheck(p, 1)
    \/ \E p \in Procs : CartPending(p)
    \/ \E p \in Procs : CartPendingReadFails(p)
    \/ \E p \in Procs : CartCreate(p)
    \/ \E p \in Procs : CartGateway(p, TRUE, TRUE)
    \/ \E provider \in KnownProviders : UpdatePaymentGatewaySettings(provider)

SelectorSpec == Init /\ [][SelectorNext]_vars

\* the step of an initiation that selects the provider
Selects(p) ==
    BuyNowPending(p) \/ BuyNowPendingReadFails(p) \/ CartPending(p) \/ CartPendingReadFails(p)

\* C21: the selector answers with the RAZORPAY adapter when the setting is
\* absent or empty or its read fails, and with the adapter of the stored
\* name otherwise; the selecting step ends in no error but the pending-order
\* wait; the orders created carry the selected adapter's name, and the
\* gateway call is made on that adapter.
SelectorDefaultsToRazorpay ==
    [][\A p \in Procs :
          /\ Selects(p)
             => \/ AtRest(p)' /\ reply' = "WaitRetry"
                \/ /\ ~AtRest(p)'
                   /\ procs'[p].provider \in KnownProviders
                   /\ (BuyNowPendingReadFails(p) \/ CartPendingReadFails(p)
                          \/ activeGateway = "")
                      => procs'[p].provider = "RAZORPAY"
                   /\ (BuyNowPending(p) \/ CartPending(p)) /\ activeGateway # ""
                      => procs'[p].provider = activeGateway
          /\ (BuyNowCreate(p) \/ CartCreate(p))
             => \A i \in DOMAIN orders' \ DOMAIN orders :
                   orders'[i].provider = procs[p].provider
          /\ (BuyNowGateway(p, TRUE, TRUE) \/ CartGateway(p, TRUE, TRUE))
             => \A i \in procs[p].ords :
                   /\ orders[i].provider = procs[p].provider
                   /\ IF AdapterImplemented(orders[i].provider)
                      THEN /\ reply' = "Initiated"
                           /\ charges'[Len(charges')].provider = orders[i].provider
                      ELSE reply' = "NotImplemented"]_vars

\* with no setting stored an order was initiated on the RAZORPAY adapter
\* and carries its name
DefaultedWithoutSetting ==
    /\ reply = "Initiated"
    /\ activeGateway = ""
    /\ \E i \in DOMAIN orders :
          /\ orders[i].provider = "RAZORPAY"
          /\ orders[i].status = "PENDING"
          /\ orders[i].gatewayOrderId \in DOMAIN charges
          /\ charges[orders[i].gatewayOrderId].provider = "RAZORPAY"

-----------------------------------------------------------------------------
(* Requests that must be rejected: user 1 asks for every course, existing or *)
(* not, and pays for what was initiated.                                     *)

RejectNext ==
    \/ \E p \in Procs, c \in RequestableCourses : BuyNowCheck(p, 1, c)
    \/ \E p \in Procs : BuyNowPending(p)
    \/ \E p \in Procs : BuyNowCreate(p)
    \/ \E p \in Procs : BuyNowGateway(p, TRUE, TRUE)
    \/ \E p \in Procs : \E pd \in ValidPayloads : VerifyLookup(p, pd)
    \/ \E p \in Procs : VerifyCommit(p)

RejectSpec == Init /\ [][RejectNext]_vars

\* the course is missing, not PUBLISHED or free, or the user is enrolled
NotPurchasable(u, c) ==
    \/ c \notin CourseIds
    \/ CourseStatus(c) # "PUBLISHED"
    \/ CoursePrice(c) = 0
    \/ Enrolled(u, c)

\* C22: initiateBuyNowOrder for a course that does not exist, is not
\* PUBLISHED or has price 0, or by a user enrolled in the course, is
\* rejected with an error at its validation; the call creates no order and
\* makes no gateway call.
UnpurchasableIsRejected ==
    [][\A p \in Procs : \A c \in RequestableCourses :
          (BuyNowCheck(p, 1, c) /\ NotPurchasable(1, c))
          => /\ AtRest(p)'
             /\ reply' \in NotFoundErrors \cup ValidationErrors
             /\ c \notin CourseIds <=> reply' \in NotFoundErrors
             /\ UNCHANGED <<orders, charges, enrollments, payments>>]_vars

\* an enrolled user asked to buy the course again and was rejected
EnrolledBuyerRejected ==
    /\ reply = "AlreadyEnrolledError"
    /\ Enrolled(1, 1)
    /\ Len(orders) = 1
    /\ Len(charges) = 1

-----------------------------------------------------------------------------
(* Orders named by the client: both users buy course 1, user 1 may cancel,   *)
(* and user 1 verifies a charge while listing two or more order ids.         *)

ListedPayloads ==
    {pd \in CartVerifyPayloads : Cardinality(pd.orderIds) > 1}

ListedNext ==
    \/ \E p \in Procs, u \in Users : BuyNowCheck(p, u, 1)
    \/ \E p \in Procs : BuyNowPending(p)
    \/ \E p \in Procs : BuyNowCreate(p)
    \/ \E p \in Procs : BuyNowGateway(p, TRUE, TRUE)
    \/ \E orderId \in DOMAIN orders : CancelLookup(1, 1, orderId)
    \/ CancelUpdate(1)
    \/ \E p \in Procs : \E pd \in ListedPayloads : CartVerifyLookup(p, 1, pd)
    \/ \E p \in Procs : CartVerifyFail(p)
    \/ \E p \in Procs : CartVerifyCommit(p)

ListedSpec == Init /\ [][ListedNext]_vars

\* the second findMany replaces the rows found by gateway order id
ListUsed(pd) ==
    /\ Cardinality(OrderByGatewayId(LookupId(pd))) = 1
    /\ Cardinality(pd.orderIds) > 1

\* C23: when verifyCartPayment takes its orders from the client's orderIds,
\* every order it goes on to change is in the list, belongs to the caller and
\* was PENDING at the lookup; the call changes no other order, adds no
\* Payment for another order and no Enrollment for another user.
ListedOrdersAreOwnPending ==
    [][\A p \in Procs :
          /\ \A pd \in ListedPayloads :
                (CartVerifyLookup(p, 1, pd) /\ ListUsed(pd) /\ ~AtRest(p)')
                => \A i \in procs'[p].ords : /\ i \in pd.orderIds
                                             /\ orders[i].userId = 1
                                             /\ orders[i].status = "PENDING"
          /\ (CartVerifyCommit(p) \/ CartVerifyFail(p))
             => /\ \A i \in DOMAIN orders \ procs[p].ords :
                      /\ orders'[i] = orders[i]
                      /\ PaymentCountIn(payments', i) = PaymentCountIn(payments, i)
                /\ \A u \in Users \ {procs[p].user} : \A c \in CourseIds :
                      CopiesIn(<<u, c>>, enrollments') = CopiesIn(<<u, c>>, enrollments)]_vars

\* user 1 paid while listing user 2's order: that order is still PENDING
\* and unpaid, and user 2 is not enrolled
ListedStrangerUntouched ==
    /\ reply = "Verified"
    /\ \E i, j \in DOMAIN orders :
          /\ orders[i].userId = 1 /\ orders[i].status = "COMPLETED"
          /\ orders[j].userId = 2 /\ orders[j].status = "PENDING"
          /\ PaymentCount(j) = 0
    /\ ~Enrolled(2, 1)

-----------------------------------------------------------------------------
(* Two purchases of one user: user 1 buys courses 1 and 2 one by one, and    *)
(* verifies the receipt of a charge with and without a list of order ids.    *)

CrossNext ==
    \/ \E p \in Procs, c \in {1, 2} : BuyNowCheck(p, 1, c)
    \/ \E p \in Procs : BuyNowPending(p)
    \/ \E p \in Procs : BuyNowCreate(p)
    \/ \E p \in Procs : BuyNowGateway(p, TRUE, TRUE)
    \/ \E p \in Procs : \E pd \in ClientCartPayloads : CartVerifyLookup(p, 1, pd)
    \/ \E p \in Procs : CartVerifyFail(p)
    \/ \E p \in Procs : CartVerifyCommit(p)

CrossSpec == Init /\ [][CrossNext]_vars

\* the sum of the amounts of a set of orders
AmountOf(ids) ==
    LET RECURSIVE Sum(_)
        Sum(S) == IF S = {} THEN 0
                  ELSE LET i == CHOOSE x \in S : TRUE
                       IN  orders[i].amount + Sum(S \ {i})
    IN  Sum(ids)

\* C24: the orders a verifyCartPayment completes all stem from the
\* initiation that made the charge whose signature was verified, and their
\* amounts sum to that charge's amount.  The code breaks it: the orders
\* named in orderIds are filtered by user and status only.
CartVerifyCompletesPaidCheckoutOnly ==
    [][\A p \in Procs :
          (CartVerifyCommit(p) /\ reply' = "Verified")
          => LET g == procs[p].pay
             IN  /\ g \in DOMAIN charges
                 /\ \A i \in procs[p].ords : orders[i].anchor = charges[g].ref
                 /\ AmountOf(procs[p].ords) = charges[g].amount]_vars

-----------------------------------------------------------------------------
(* Cart verification of a failed order, one call at a time: user 1 buys      *)
(* course 1 or checks the cart out, cancels, and sends receipts.             *)

FailedCartNext ==
    \/ BuyNowCheck(1, 1, 1)
    \/ BuyNowPending(1)
    \/ BuyNowCreate(1)
    \/ BuyNowGateway(1, TRUE, TRUE)
    \/ CartCheck(1, 1)
    \/ CartPending(1)
    \/ CartCreate(1)
    \/ CartGateway(1, TRUE, TRUE)
    \/ \E orderId \in DOMAIN orders : CancelLookup(1, 1, orderId)
    \/ CancelUpdate(1)
    \/ \E pd \in ClientCartPayloads : CartVerifyLookup(1, 1, pd)
    \/ CartVerifyFail(1)
    \/ CartVerifyCommit(1)
    \/ Tick

FailedCartSpec == Init /\ [][FailedCartNext]_vars

\* C25: verifyCartPayment rejects the call when the order found by the
\* gateway order id is FAILED, and no step of it changes a FAILED order or
\* adds a Payment for one.  The code breaks it: the function checks for
\* COMPLETED only.
CartVerifyRefusesFailed ==
    [][\A p \in Procs :
          /\ \A pd \in ClientCartPayloads :
                /\ CartVerifyLookup(p, 1, pd)
                /\ \E i \in OrderByGatewayId(LookupId(pd)) : orders[i].status = "FAILED"
                => AtRest(p)' /\ reply' \in ValidationErrors
          /\ (CartVerifyCommit(p) \/ CartVerifyFail(p))
             => \A i \in DOMAIN orders :
                   orders[i].status = "FAILED"
                   => /\ orders'[i].status = "FAILED"
                      /\ PaymentCountIn(payments', i) = PaymentCountIn(payments, i)]_vars

-----------------------------------------------------------------------------
(* Paying twice for one course: user 1 buys course 1, and again when the     *)
(* first order is older than the retry window; both charges are paid and     *)
(* verified through either endpoint.                                         *)

PaidTwiceNext ==
    \/ BuyNowCheck(1, 1, 1)
    \/ BuyNowPending(1)
    \/ BuyNowCreate(1)
    \/ BuyNowGateway(1, TRUE, TRUE)
    \/ Tick
    \/ \E p \in Procs : \E pd \in ValidPayloads : VerifyLookup(p, pd)
    \/ \E p \in Procs : VerifyCommit(p)
    \/ \E p \in Procs : \E pd \in ValidPayloads : CartVerifyLookup(p, 1, pd)
    \/ \E p \in Procs : CartVerifyCommit(p)

PaidTwiceSpec == Init /\ [][PaidTwiceNext]_vars

\* order i is COMPLETED and its user is enrolled in its course, after the step
SettledAfter(i) ==
    /\ orders'[i].status = "COMPLETED"
    /\ BagIn(<<orders[i].userId, orders[i].courseId>>, enrollments')

\* C26: when verifyPaymentSignature or verifyCartPayment answers success,
\* every order the call was to complete is COMPLETED and its user is
\* enrolled in its course.  The code breaks it: a unique-constraint error
\* rolls the transaction back and is answered as success, so an order paid
\* while the user was enrolled through another order stays PENDING.
SuccessMeansCompleted ==
    [][\A p \in Procs :
          /\ \A pd \in ValidPayloads :
                /\ VerifyLookup(p, pd) \/ CartVerifyLookup(p, 1, pd)
                /\ AtRest(p)' /\ reply' \in Successes
                => \A i \in TargetOf(pd) : SettledAfter(i)
          /\ (VerifyCommit(p) \/ CartVerifyCommit(p)) /\ reply' \in Successes
             => \A i \in procs[p].ords : SettledAfter(i)]_vars

-----------------------------------------------------------------------------
(* Sessions: users log in, log out, change their password, and present the   *)
(* session ids they were given, all together.                                *)

SessionNext ==
    \/ \E p \in Procs, u \in Users : CreateSessionFind(p, u)
    \/ \E p \in Procs : CreateSessionDel(p)
    \/ \E p \in Procs : CreateSessionUpdate(p)
    \/ \E p \in Procs : CreateSessionCommit(p)
    \/ \E p \in Procs : CreateSessionCache(p)
    \/ \E p \in Procs, sessionId \in Issued : ValidateSessionGet(p, sessionId)
    \/ \E p \in Procs : ValidateSessionFind(p)
    \/ \E p \in Procs : ValidateSessionSet(p)
    \/ \E p \in Procs, sessionId \in Issued : InvalidateSessionDel(p, sessionId)
    \/ \E p \in Procs : InvalidateSessionUpdate(p)
    \/ \E p \in Procs, u \in Users : InvalidateAllFind(p, u)
    \/ \E p \in Procs : InvalidateAllDel(p)
    \/ \E p \in Procs : InvalidateAllUpdate(p)

SessionSpec == Init /\ [][SessionNext]_vars

\* C27: a user never has more than one active session in the Session
\* table, and when createSession returns, the session it created is the
\* user's only active one.  The code breaks it: two createSession
\* transactions for one user can both run their updateMany before either
\* commits its new row.
SingleActiveSession ==
    /\ [](\A u \in Users : Cardinality(ActiveSessions(u)) <= 1)
    /\ [][\A p \in Procs :
             CreateSessionCache(p)
             => {s \in DOMAIN sessions' : /\ sessions'[s].userId = procs[p].user
                                          /\ sessions'[s].isActive}
                = {procs[p].pay}]_vars

\* no createSession, invalidateSession or invalidateAllSessions is running
NoInvalidationInFlight ==
    \A p \in Procs : procs[p].pc \in {"idle", "sv_find", "sv_set"}

(* Logins and logouts one at a time, with validateSession calls running     *)
(* beside them.                                                              *)

LogoutNext ==
    \/ NoInvalidationInFlight /\ \E p \in Procs, u \in Users : CreateSessionFind(p, u)
    \/ \E p \in Procs : CreateSessionDel(p)
    \/ \E p \in Procs : CreateSessionUpdate(p)
    \/ \E p \in Procs : CreateSessionCommit(p)
    \/ \E p \in Procs : CreateSessionCache(p)
    \/ \E p \in Procs, sessionId \in Issued : ValidateSessionGet(p, sessionId)
    \/ \E p \in Procs : ValidateSessionFind(p)
    \/ \E p \in Procs : ValidateSessionSet(p)
    \/ NoInvalidationInFlight
       /\ \E p \in Procs, sessionId \in Issued : InvalidateSessionDel(p, sessionId)
    \/ \E p \in Procs : InvalidateSessionUpdate(p)
    \/ NoInvalidationInFlight /\ \E p \in Procs, u \in Users : InvalidateAllFind(p, u)
    \/ \E p \in Procs : InvalidateAllDel(p)
    \/ \E p \in Procs : InvalidateAllUpdate(p)

LogoutSpec == Init /\ [][LogoutNext]_vars

\* C28: when createSession, invalidateSession and invalidateAllSessions
\* have returned, validateSession answers true only for a session that is
\* active in the Session table, and the cache holds no session the table
\* marks inactive.  The code breaks it: a validateSession that missed the
\* cache and read the row before the update writes the cache entry after it.
InvalidatedSessionIsRefused ==
    /\ [](NoInvalidationInFlight /\ (\A p \in Procs : AtRest(p))
            => \A s \in cache : sessions[s].isActive)
    /\ [][\A p \in Procs : \A sessionId \in Issued :
             /\ NoInvalidationInFlight
             /\ ValidateSessionGet(p, sessionId)
             /\ AtRest(p)' /\ reply' = "SessionValid"
             => sessions[sessionId].isActive]_vars

-----------------------------------------------------------------------------
(* A coupon with a global limit: users validate the coupon, and a user who   *)
(* was answered valid consumes it for the one order the user pays (the       *)
(* order's id is the user's).                                                *)

LimitedCoupons ==
    {[StandardCoupon EXCEPT !.totalUsageLimit = n] : n \in {1, 2}}

LimitInit ==
    /\ OrdersInit
    /\ reply = NoResult
    /\ coupons \in [{"SAVE20"} -> LimitedCoupons]
    /\ couponUsages = <<>>
    /\ couponSystemEnabled = TRUE
    /\ validFor = {}

LimitNext ==
    \/ \E p \in Procs, u \in Users : ValidateFind(p, "SAVE20", u, 1, 499000)
    \/ \E p \in Procs : ValidateCount(p)
    \/ \E p \in Procs, u \in validFor : ConsumeFind(p, "SAVE20", u, u)
    \/ \E p \in Procs : ConsumeUsage(p)
    \/ \E p \in Procs : ConsumeWrite(p)

LimitSpec == LimitInit /\ [][LimitNext]_vars

\* C29: a coupon with a totalUsageLimit is never consumed more often than
\* the limit, when every consumeCoupon is made by a user whom validateCoupon
\* answered valid.  The code breaks it: only validateCoupon compares
\* usedCount with the limit, and consumeCoupon increments without a look.
UsedCountWithinLimit ==
    \A code \in DOMAIN coupons :
        coupons[code].totalUsageLimit # Null
        => coupons[code].usedCount <= coupons[code].totalUsageLimit

-----------------------------------------------------------------------------
(* usedCount and the CouponUsage rows *)

\* rows of CouponUsage that reference the coupon
UsageRows(table, couponId) ==
    Cardinality({k \in DOMAIN table : table[k].couponId = couponId})

\* C30: every coupon's usedCount is the number of CouponUsage rows that
\* reference it, and every step either leaves both tables as they were or
\* adds one to a coupon's usedCount together with one row for that coupon,
\* also when consumeCoupon returns early or its transaction fails.
UsedCountEqualsUsageRows ==
    /\ [](\A code \in DOMAIN coupons :
             coupons[code].usedCount = UsageRows(couponUsages, coupons[code].id))
    /\ [][\/ coupons' = coupons /\ couponUsages' = couponUsages
          \/ \E code \in DOMAIN coupons :
                /\ coupons' = [coupons EXCEPT ![code].usedCount = @ + 1]
                /\ Len(couponUsages') = Len(couponUsages) + 1
                /\ SubSeq(couponUsages', 1, Len(couponUsages)) = couponUsages
                /\ couponUsages'[Len(couponUsages')].couponId = coupons[code].id]_vars

\* both orders consumed the coupon, and a concurrent second call for one of
\* them was refused and rolled back
RefusedWithBothOrdersConsumed ==
    /\ reply = ConsumeResult(FALSE)
    /\ couponSystemEnabled
    /\ coupons["SAVE20"].usedCount = 2
    /\ UsageRows(couponUsages, coupons["SAVE20"].id) = 2

====
